---- MODULE Spec2Model ----
(***************************************************************************)
(* Tiny Kingdoms: wave runtime (WaveSystemV2 on the Phaser clock), wave    *)
(* composition and the damage-type effectiveness calculator.               *)
(*                                                                         *)
(* Numbers.  The source computes in IEEE doubles; the model computes in    *)
(* exact integers on scaled values: resistance multipliers in tenths,      *)
(* primaryRatio in hundredths, blended multipliers in thousandths, times   *)
(* in quarter milliseconds (so that a delay divided by game speed 1, 2 or  *)
(* 4 stays integral).                                                      *)
(***************************************************************************)
EXTENDS Integers, Sequences, FiniteSets, TLC

Max2(a, b) == IF a >= b THEN a ELSE b
Min2(a, b) == IF a <= b THEN a ELSE b

(***************************************************************************)
(* damage.config.ts                                                        *)
(***************************************************************************)
DamageType == {"fire", "physical", "ice", "light", "pierce", "void"}

EnemyType == {"swarm", "beast", "armored", "undead", "demon", "elemental",
              "flying", "tank", "boss", "dragon", "aquatic", "humanoid",
              "construct"}

\* secondary = "none" stands for null; primaryRatio in hundredths
TOWER_DAMAGE_PROFILES ==
  [ ember_watch        |-> [primary |-> "fire",     secondary |-> "none",     primaryRatio |-> 100],
    rockbound_bastion  |-> [primary |-> "physical", secondary |-> "none",     primaryRatio |-> 100],
    frostcoil_tower    |-> [primary |-> "ice",      secondary |-> "none",     primaryRatio |-> 100],
    sunflare_cannon    |-> [primary |-> "light",    secondary |-> "fire",     primaryRatio |-> 70],
    ironspike_launcher |-> [primary |-> "pierce",   secondary |-> "physical", primaryRatio |-> 75],
    pyrehold           |-> [primary |-> "fire",     secondary |-> "physical", primaryRatio |-> 65],
    void_obelisk       |-> [primary |-> "void",     secondary |-> "none",     primaryRatio |-> 100],
    stone_mortar       |-> [primary |-> "physical", secondary |-> "pierce",   primaryRatio |-> 80],
    dread_pyre         |-> [primary |-> "void",     secondary |-> "fire",     primaryRatio |-> 60] ]

\* multipliers in tenths
ENEMY_DAMAGE_MULTIPLIERS ==
  [
    swarm     |-> [fire |-> 16, physical |-> 12, ice |-> 14, light |-> 13, pierce |-> 7, void |-> 9],
    beast     |-> [fire |-> 15, physical |-> 10, ice |-> 12, light |-> 10, pierce |-> 13, void |-> 8],
    armored   |-> [fire |-> 12, physical |-> 5, ice |-> 10, light |-> 10, pierce |-> 18, void |-> 10],
    undead    |-> [fire |-> 15, physical |-> 7, ice |-> 5, light |-> 18, pierce |-> 6, void |-> 5],
    demon     |-> [fire |-> 5, physical |-> 10, ice |-> 15, light |-> 18, pierce |-> 11, void |-> 7],
    elemental |-> [fire |-> 8, physical |-> 6, ice |-> 8, light |-> 13, pierce |-> 4, void |-> 15],
    flying    |-> [fire |-> 13, physical |-> 8, ice |-> 14, light |-> 10, pierce |-> 16, void |-> 10],
    tank      |-> [fire |-> 11, physical |-> 6, ice |-> 9, light |-> 10, pierce |-> 14, void |-> 12],
    boss      |-> [fire |-> 11, physical |-> 11, ice |-> 11, light |-> 12, pierce |-> 12, void |-> 15],
    dragon    |-> [fire |-> 3, physical |-> 7, ice |-> 16, light |-> 10, pierce |-> 14, void |-> 12],
    aquatic   |-> [fire |-> 6, physical |-> 10, ice |-> 17, light |-> 14, pierce |-> 12, void |-> 9],
    humanoid  |-> [fire |-> 12, physical |-> 9, ice |-> 11, light |-> 13, pierce |-> 12, void |-> 7],
    construct |-> [fire |-> 6, physical |-> 18, ice |-> 7, light |-> 5, pierce |-> 8, void |-> 4]
  ]

\* one enemy type's weighted multiplier, in thousandths
\* (the body of both loops of calculateEffectiveDamage)
TypeMultiplier(profile, enemyType) ==
  LET multipliers == ENEMY_DAMAGE_MULTIPLIERS[enemyType]
      primaryPart == multipliers[profile.primary] * profile.primaryRatio
  IN  IF profile.secondary # "none"
        THEN primaryPart + multipliers[profile.secondary] * (100 - profile.primaryRatio)
        ELSE primaryPart

\* first loop: starts from 1.0 and keeps the highest type multiplier
RECURSIVE BestMultiplier(_, _, _)
BestMultiplier(profile, enemyTypes, best) ==
  IF enemyTypes = << >> THEN best
  ELSE LET typeMultiplier == TypeMultiplier(profile, Head(enemyTypes))
       IN  BestMultiplier(profile, Tail(enemyTypes),
                          IF typeMultiplier > best THEN typeMultiplier ELSE best)

\* second loop: starts from 1.0 and keeps the lowest type multiplier
RECURSIVE WorstMultiplier(_, _, _)
WorstMultiplier(profile, enemyTypes, worst) ==
  IF enemyTypes = << >> THEN worst
  ELSE LET typeMultiplier == TypeMultiplier(profile, Head(enemyTypes))
       IN  WorstMultiplier(profile, Tail(enemyTypes),
                           IF typeMultiplier < worst THEN typeMultiplier ELSE worst)

\* final multiplier in two-thousandths: (best + worst) / 2 for more than one
\* enemy type, best otherwise
FinalMultiplier2000(profile, enemyTypes) ==
  LET bestMultiplier  == BestMultiplier(profile, enemyTypes, 1000)
      worstMultiplier == WorstMultiplier(profile, enemyTypes, 1000)
  IN  IF Len(enemyTypes) > 1 THEN bestMultiplier + worstMultiplier
                             ELSE 2 * bestMultiplier

\* variant that rejects a tower without a damage profile instead of passing
\* the base damage through
calculateEffectiveDamageStrict(baseDamage, towerId, enemyTypes) ==
  IF towerId \notin DOMAIN TOWER_DAMAGE_PROFILES
    THEN 0
    ELSE (baseDamage * FinalMultiplier2000(TOWER_DAMAGE_PROFILES[towerId], enemyTypes)) \div 2000

calculateEffectiveDamage(baseDamage, towerId, enemyTypes) ==
  IF towerId \notin DOMAIN TOWER_DAMAGE_PROFILES
    THEN baseDamage
    ELSE (baseDamage * FinalMultiplier2000(TOWER_DAMAGE_PROFILES[towerId], enemyTypes)) \div 2000


(***************************************************************************)
(* enemies.config.ts: the fields the wave engine reads                     *)
(***************************************************************************)
ENEMY_CONFIGS ==
  [ goblin               |-> [enemyTypes |-> <<"swarm">>, unlockWave |-> 1],
    tnt_runner           |-> [enemyTypes |-> <<"swarm">>, unlockWave |-> 1],
    barrel_bomber        |-> [enemyTypes |-> <<"swarm">>, unlockWave |-> 2],
    footman              |-> [enemyTypes |-> <<"humanoid", "armored">>, unlockWave |-> 2],
    goblin_blue          |-> [enemyTypes |-> <<"swarm">>, unlockWave |-> 3],
    goblin_yellow        |-> [enemyTypes |-> <<"swarm">>, unlockWave |-> 4],
    tnt_runner_blue      |-> [enemyTypes |-> <<"swarm", "flying">>, unlockWave |-> 3],
    barrel_bomber_purple |-> [enemyTypes |-> <<"swarm", "undead">>, unlockWave |-> 4],
    archer               |-> [enemyTypes |-> <<"humanoid", "armored">>, unlockWave |-> 3],
    warrior              |-> [enemyTypes |-> <<"armored", "humanoid">>, unlockWave |-> 3],
    rogue                |-> [enemyTypes |-> <<"humanoid", "undead">>, unlockWave |-> 5],
    dark_knight          |-> [enemyTypes |-> <<"undead", "armored">>, unlockWave |-> 5],
    berserker            |-> [enemyTypes |-> <<"beast", "tank">>, unlockWave |-> 5],
    iron_guard           |-> [enemyTypes |-> <<"construct", "tank">>, unlockWave |-> 8],
    elite_scout          |-> [enemyTypes |-> <<"armored", "humanoid">>, unlockWave |-> 8],
    shadow_archer        |-> [enemyTypes |-> <<"elemental", "undead">>, unlockWave |-> 10],
    frost_archer         |-> [enemyTypes |-> <<"aquatic">>, unlockWave |-> 10],
    warlord              |-> [enemyTypes |-> <<"boss", "tank">>, unlockWave |-> 10],
    dark_lord            |-> [enemyTypes |-> <<"boss", "demon", "undead">>, unlockWave |-> 15] ]

\* Object.keys(ENEMY_CONFIGS): the keys in declaration order
EnemyKeys ==
  << "goblin", "tnt_runner", "barrel_bomber", "footman", "goblin_blue",
     "goblin_yellow", "tnt_runner_blue", "barrel_bomber_purple", "archer",
     "warrior", "rogue", "dark_knight", "berserker", "iron_guard",
     "elite_scout", "shadow_archer", "frost_archer", "warlord", "dark_lord" >>

(***************************************************************************)
(* waves.config.ts: ratios and spawnIntervalMultiplier in hundredths       *)
(***************************************************************************)
Theme(id, focus, support, wildcard, fr, sr, wr, segs, sim) ==
  [ id |-> id, focusTypes |-> focus, supportTypes |-> support,
    wildcardTypes |-> wildcard, focusRatio |-> fr, supportRatio |-> sr,
    wildcardRatio |-> wr, segmentCount |-> segs,
    spawnIntervalMultiplier |-> sim ]

EARLY_WAVE_THEMES ==
  << Theme("intro_swarm",   {"swarm"},   {"humanoid"}, {}, 85, 15, 0, 1, 105),
     Theme("swarm_mix",     {"swarm"},   {"armored"},  {}, 70, 30, 0, 2, 100),
     Theme("armored_check", {"armored"}, {"swarm"},    {}, 60, 40, 0, 2, 100),
     Theme("flying_intro",  {"flying"},  {"swarm"},    {}, 55, 45, 0, 2, 95) >>

WAVE_THEME_CYCLE ==
  << Theme("swarm_pressure",  {"swarm"},   {"humanoid"}, {"armored"}, 60, 20, 20, 3, 92),
     Theme("armored_push",    {"armored"}, {"humanoid"}, {"tank"},    55, 20, 25, 3, 105),
     Theme("flying_strike",   {"flying"},  {"swarm"},    {"armored"}, 55, 20, 25, 3, 95),
     Theme("undead_curse",    {"undead"},  {"armored"},  {"humanoid"}, 60, 20, 20, 3, 100),
     Theme("beast_tank",      {"beast", "tank"}, {"armored"}, {"swarm"}, 55, 25, 20, 3, 105),
     Theme("construct_wall",  {"construct"}, {"tank"},   {"armored"}, 55, 25, 20, 3, 110),
     Theme("elemental_surge", {"elemental", "aquatic"}, {"undead"}, {"humanoid"}, 55, 20, 25, 3, 98),
     Theme("mixed_check",     {"swarm", "armored", "flying"}, {"undead", "tank"},
                              {"humanoid"}, 50, 25, 25, 4, 100) >>

BOSS_SUPPORT_THEME ==
  Theme("boss_support", {"tank", "armored"}, {"swarm"}, {"undead", "humanoid"},
        50, 30, 20, 3, 100)

(***************************************************************************)
(* Sequence helpers                                                        *)
(***************************************************************************)
RECURSIVE Replicate(_, _)
Replicate(x, n) == IF n <= 0 THEN << >> ELSE << x >> \o Replicate(x, n - 1)

Reverse(s) == [i \in 1..Len(s) |-> s[Len(s) + 1 - i]]

\* batch.push(batch.shift())
RotateLeft(s) == IF s = << >> THEN s ELSE Tail(s) \o << Head(s) >>

\* Array.prototype.splice(at, 0, x)
InsertAt(s, at, x) == SubSeq(s, 1, at) \o << x >> \o SubSeq(s, at + 1, Len(s))

SeqPermutations(s) ==
  { [i \in 1..Len(s) |-> s[f[i]]] :
      f \in { g \in [1..Len(s) -> 1..Len(s)] :
                \A i, j \in 1..Len(s) : i # j => g[i] # g[j] } }


(***************************************************************************)
(* Bounds of the exploration                                               *)
(***************************************************************************)
\* pools of at most this many archetypes are shuffled into every
\* permutation; larger pools into the three sample orders of ShuffleOutcomes
MaxShufflePool == 3

\* the runtime starts at most this many waves
MaxWave == 2

(***************************************************************************)
(* WaveSystemV2: composition (pure part)                                   *)
(***************************************************************************)
\* Math.floor(Math.log(n) * 1000) for n = 1 .. 64
LogMilli ==
  << 0, 693, 1098, 1386, 1609, 1791, 1945, 2079, 2197, 2302, 2397, 2484,
     2564, 2639, 2708, 2772, 2833, 2890, 2944, 2995, 3044, 3091, 3135, 3178,
     3218, 3258, 3295, 3332, 3367, 3401, 3433, 3465, 3496, 3526, 3555, 3583,
     3610, 3637, 3663, 3688, 3713, 3737, 3761, 3784, 3806, 3828, 3850, 3871,
     3891, 3912, 3931, 3951, 3970, 3988, 4007, 4025, 4043, 4060, 4077, 4094,
     4110, 4127, 4143, 4158 >>

IsBoss(enemyId) ==
  \E i \in 1..Len(ENEMY_CONFIGS[enemyId].enemyTypes) :
     ENEMY_CONFIGS[enemyId].enemyTypes[i] = "boss"

RECURSIVE FilterRoster(_, _, _)
FilterRoster(roster, wave, wantBoss) ==
  IF roster = << >> THEN << >>
  ELSE LET enemyId == Head(roster)
           take == /\ enemyId \in DOMAIN ENEMY_CONFIGS
                   /\ ENEMY_CONFIGS[enemyId].unlockWave <= wave
                   /\ IsBoss(enemyId) = wantBoss
       IN  (IF take THEN << enemyId >> ELSE << >>)
             \o FilterRoster(Tail(roster), wave, wantBoss)

\* variant: unlocked bosses are not excluded from the regular pool
getAvailableEnemyTypesWithBosses(roster, wave) ==
  LET available == FilterRoster(roster, wave, FALSE) \o FilterRoster(roster, wave, TRUE)
  IN  IF Len(available) = 0 THEN << "goblin" >> ELSE available

getAvailableEnemyTypes(roster, wave) ==
  LET available == FilterRoster(roster, wave, FALSE)
  IN  IF Len(available) = 0 THEN << "goblin" >> ELSE available

getAvailableBossTypes(roster, wave) == FilterRoster(roster, wave, TRUE)

\* enemyCount and spawnInterval (ms) of getWaveScaling; countPct is the
\* enemyCountMultiplier in hundredths
ScalingEnemyCount(wave, countPct) ==
  ((5000 + wave * 1500 + 3 * LogMilli[wave + 1]) * countPct) \div 100000

\* variant: the theme-adjusted interval without the final floor
ScalingSpawnIntervalNoFloor(wave, theme) ==
  (Max2(300, 800 - wave * 30) * theme.spawnIntervalMultiplier + 50) \div 100

ScalingSpawnInterval(wave, theme) ==
  Max2(280, (Max2(300, 800 - wave * 30) * theme.spawnIntervalMultiplier + 50) \div 100)

getWaveScaling(wave, countPct, theme) ==
  [ enemyCount    |-> ScalingEnemyCount(wave, countPct),
    spawnInterval |-> ScalingSpawnInterval(wave, theme) ]

HasAnyType(enemyId, types) ==
  /\ enemyId \in DOMAIN ENEMY_CONFIGS
  /\ \E i \in 1..Len(ENEMY_CONFIGS[enemyId].enemyTypes) :
        ENEMY_CONFIGS[enemyId].enemyTypes[i] \in types

RECURSIVE getEnemyPoolByTypes(_, _)
getEnemyPoolByTypes(availableTypes, types) ==
  IF types = {} \/ availableTypes = << >> THEN << >>
  ELSE (IF HasAnyType(Head(availableTypes), types)
          THEN << Head(availableTypes) >> ELSE << >>)
         \o getEnemyPoolByTypes(Tail(availableTypes), types)

StrategicTypes ==
  {"flying", "armored", "undead", "construct", "tank", "elemental",
   "aquatic", "beast"}

getNewEnemyTypesForWave(wave) ==
  { t \in EnemyType :
      /\ t # "boss"
      /\ \E id \in DOMAIN ENEMY_CONFIGS :
           /\ ENEMY_CONFIGS[id].unlockWave = wave
           /\ \E i \in 1..Len(ENEMY_CONFIGS[id].enemyTypes) :
                ENEMY_CONFIGS[id].enemyTypes[i] = t }

\* null
NoTheme == [ id |-> "none" ]

getUnlockTheme(availableTypes, wave) ==
  LET focusTypes == getNewEnemyTypesForWave(wave) \cap StrategicTypes
  IN  IF focusTypes = {} THEN NoTheme
      ELSE IF Len(getEnemyPoolByTypes(availableTypes, focusTypes)) = 0 THEN NoTheme
      ELSE Theme("new_threat", focusTypes, {"swarm", "humanoid", "armored"},
                 {"tank"}, 65, 25, 10, 3, 100)

\* variant: the unlock theme is tried before the early-wave theme
getWaveThemeUnlockFirst(availableTypes, isBossWave, wave) ==
  IF isBossWave THEN BOSS_SUPPORT_THEME
  ELSE IF getUnlockTheme(availableTypes, wave).id # NoTheme.id
    THEN getUnlockTheme(availableTypes, wave)
  ELSE IF wave \in 1..Len(EARLY_WAVE_THEMES) THEN EARLY_WAVE_THEMES[wave]
  ELSE WAVE_THEME_CYCLE[(Max2(0, wave - 5) % Len(WAVE_THEME_CYCLE)) + 1]

getWaveTheme(availableTypes, isBossWave, wave) ==
  IF isBossWave THEN BOSS_SUPPORT_THEME
  ELSE IF wave \in 1..Len(EARLY_WAVE_THEMES) THEN EARLY_WAVE_THEMES[wave]
  ELSE IF getUnlockTheme(availableTypes, wave).id # NoTheme.id
    THEN getUnlockTheme(availableTypes, wave)
  ELSE WAVE_THEME_CYCLE[(Max2(0, wave - 5) % Len(WAVE_THEME_CYCLE)) + 1]

getSegmentCount(total, preferred) ==
  Max2(1, Min2(preferred, Min2(4, (total \div 8) + 1)))

\* variant: a negative wildcard count is set to 0 without rebalancing the
\* support and focus counts
AllocateFromNoRebalance(total, focus0, support0) ==
  LET focus1 == IF total > 0 /\ focus0 = 0 THEN 1 ELSE focus0
      wild1  == total - focus1 - support0
  IN  [focusCount |-> focus1, supportCount |-> support0,
       wildcardCount |-> IF wild1 < 0 THEN 0 ELSE wild1]

\* allocateThemeCounts from the two floored shares on
AllocateFrom(total, focus0, support0) ==
  LET focus1 == IF total > 0 /\ focus0 = 0 THEN 1 ELSE focus0
      wild1  == total - focus1 - support0
  IN  IF wild1 < 0
        THEN IF support0 > 0
               THEN [focusCount |-> focus1, supportCount |-> total - focus1, wildcardCount |-> 0]
               ELSE [focusCount |-> total, supportCount |-> support0, wildcardCount |-> 0]
        ELSE [focusCount |-> focus1, supportCount |-> support0, wildcardCount |-> wild1]

allocateThemeCounts(total, theme) ==
  LET ratioTotal == theme.focusRatio + theme.supportRatio + theme.wildcardRatio
      focus0   == IF ratioTotal > 0 THEN (total * theme.focusRatio) \div ratioTotal
                                    ELSE total
      support0 == IF ratioTotal > 0 THEN (total * theme.supportRatio) \div ratioTotal
                                    ELSE 0
  IN  AllocateFrom(total, focus0, support0)

\* Math.floor(total * (ratio / ratioTotal)) in double arithmetic: the exact
\* floor, or one less when the exact share is a whole number that the
\* rounded quotient may fall just short of
FloatFloors(total, ratio, ratioTotal) ==
  LET exact == (total * ratio) \div ratioTotal
  IN  IF (total * ratio) % ratioTotal = 0 /\ exact > 0 /\ ratio # ratioTotal
        THEN {exact, exact - 1}
        ELSE {exact}

\* Phaser.Utils.Array.Shuffle: any order of the pool
ShuffleOutcomes(pool) ==
  IF Len(pool) <= MaxShufflePool THEN SeqPermutations(pool)
  ELSE { pool, Reverse(pool), RotateLeft(pool) }

\* variant: the built sequence is returned without the final slice
RECURSIVE BuildLoopNoSlice(_, _, _)
BuildLoopNoSlice(pool, count, sequence) ==
  IF Len(sequence) >= count THEN { sequence }
  ELSE UNION { BuildLoopNoSlice(pool, count,
                  sequence \o (IF /\ Len(sequence) > 0
                                  /\ Len(batch) > 1
                                  /\ sequence[Len(sequence)] = batch[1]
                                 THEN RotateLeft(batch) ELSE batch)) :
               batch \in ShuffleOutcomes(pool) }

\* variant: a batch is appended as shuffled, without the seam fix
RECURSIVE BuildLoopNoSeamFix(_, _, _)
BuildLoopNoSeamFix(pool, count, sequence) ==
  IF Len(sequence) >= count THEN { SubSeq(sequence, 1, count) }
  ELSE UNION { BuildLoopNoSeamFix(pool, count, sequence \o batch) :
               batch \in ShuffleOutcomes(pool) }

\* the while loop of buildSequenceFromPool, from the sequence built so far
RECURSIVE BuildLoop(_, _, _)
BuildLoop(pool, count, sequence) ==
  IF Len(sequence) >= count THEN { SubSeq(sequence, 1, count) }
  ELSE UNION { BuildLoop(pool, count,
                  sequence \o (IF /\ Len(sequence) > 0
                                  /\ Len(batch) > 1
                                  /\ sequence[Len(sequence)] = batch[1]
                                 THEN RotateLeft(batch) ELSE batch)) :
               batch \in ShuffleOutcomes(pool) }

\* the set of sequences buildSequenceFromPool can return
buildSequenceFromPool(pool, count) ==
  IF Len(pool) = 0 \/ count <= 0 THEN { << >> }
  ELSE BuildLoop(pool, count, << >>)

\* variant: a sub-pool is used as filtered, without the fallbacks
ResolvedPoolsNoFallback(availableTypes, theme) ==
  LET basePool     == IF Len(availableTypes) > 0 THEN availableTypes ELSE << "goblin" >>
      focusPool    == getEnemyPoolByTypes(basePool, theme.focusTypes)
      supportPool  == getEnemyPoolByTypes(basePool, theme.supportTypes)
      wildcardPool == getEnemyPoolByTypes(basePool, theme.wildcardTypes)
  IN  [ basePool |-> basePool, focusPool |-> focusPool,
        supportPool |-> supportPool, wildcardPool |-> wildcardPool,
        resolvedFocusPool |-> focusPool,
        resolvedSupportPool |-> supportPool,
        resolvedWildcardPool |-> wildcardPool ]

\* the pools of generateThemedComposition before and after the fallbacks
ResolvedPools(availableTypes, theme) ==
  LET basePool     == IF Len(availableTypes) > 0 THEN availableTypes ELSE << "goblin" >>
      focusPool    == getEnemyPoolByTypes(basePool, theme.focusTypes)
      supportPool  == getEnemyPoolByTypes(basePool, theme.supportTypes)
      wildcardPool == getEnemyPoolByTypes(basePool, theme.wildcardTypes)
      resolvedFocusPool    == IF Len(focusPool) > 0 THEN focusPool ELSE basePool
      resolvedSupportPool  == IF Len(supportPool) > 0 THEN supportPool ELSE resolvedFocusPool
      resolvedWildcardPool == IF Len(wildcardPool) > 0 THEN wildcardPool ELSE resolvedSupportPool
  IN  [ basePool |-> basePool, focusPool |-> focusPool,
        supportPool |-> supportPool, wildcardPool |-> wildcardPool,
        resolvedFocusPool |-> resolvedFocusPool,
        resolvedSupportPool |-> resolvedSupportPool,
        resolvedWildcardPool |-> resolvedWildcardPool ]

\* variant: the second half of the focus units comes before the support
\* segment, so a three-segment wave closes with its support segment
ThemedSegmentsFocusFirst(count, availableTypes, theme) ==
  LET pools == ResolvedPools(availableTypes, theme)
      counts == allocateThemeCounts(count, theme)
      segmentCount == getSegmentCount(count, theme.segmentCount)
  IN  IF segmentCount <= 1
        THEN << [pool |-> pools.resolvedFocusPool, size |-> count] >>
        ELSE << [pool |-> pools.resolvedFocusPool, size |-> counts.focusCount],
                [pool |-> pools.resolvedSupportPool, size |-> count - counts.focusCount] >>

\* the segments (pool, size) laid out by generateThemedComposition
ThemedSegments(count, availableTypes, theme) ==
  LET pools == ResolvedPools(availableTypes, theme)
      resolvedFocusPool    == pools.resolvedFocusPool
      resolvedSupportPool  == pools.resolvedSupportPool
      resolvedWildcardPool == pools.resolvedWildcardPool
      counts       == allocateThemeCounts(count, theme)
      segmentCount == getSegmentCount(count, theme.segmentCount)
      focusFirst   == (counts.focusCount + 1) \div 2
      focusSecond  == counts.focusCount - focusFirst
      supportSize  == counts.supportCount
                        + (IF segmentCount < 4 THEN counts.wildcardCount ELSE 0)
  IN  IF segmentCount <= 1
        THEN << [pool |-> resolvedFocusPool, size |-> count] >>
      ELSE IF segmentCount = 2
        THEN << [pool |-> resolvedFocusPool, size |-> counts.focusCount],
                [pool |-> resolvedSupportPool, size |-> count - counts.focusCount] >>
      ELSE << [pool |-> resolvedFocusPool, size |-> focusFirst] >>
           \o (IF supportSize > 0
                 THEN << [pool |-> resolvedSupportPool, size |-> supportSize] >>
                 ELSE << >>)
           \o (IF segmentCount >= 4 /\ counts.wildcardCount > 0
                 THEN << [pool |-> resolvedWildcardPool, size |-> counts.wildcardCount] >>
                 ELSE << >>)
           \o (IF focusSecond > 0
                 THEN << [pool |-> resolvedFocusPool, size |-> focusSecond] >>
                 ELSE << >>)

\* composition.push(...buildSequenceFromPool(segment.pool, segment.size))
\* over the segments in order
RECURSIVE ConcatSegments(_)
ConcatSegments(segments) ==
  IF segments = << >> THEN { << >> }
  ELSE { first \o rest :
           first \in buildSequenceFromPool(Head(segments).pool, Head(segments).size),
           rest \in ConcatSegments(Tail(segments)) }

\* the set of sequences generateThemedComposition can return
generateThemedComposition(count, availableTypes, theme) ==
  LET basePool  == IF Len(availableTypes) > 0 THEN availableTypes ELSE << "goblin" >>
      focusPool == getEnemyPoolByTypes(basePool, theme.focusTypes)
      resolvedFocusPool == IF Len(focusPool) > 0 THEN focusPool ELSE basePool
      padded(composition) ==
        IF Len(composition) < count
          THEN { composition \o pad :
                   pad \in buildSequenceFromPool(resolvedFocusPool, count - Len(composition)) }
          ELSE { composition }
  IN  { SubSeq(full, 1, Min2(Max2(count, 0), Len(full))) :
          full \in UNION { padded(composition) :
                     composition \in ConcatSegments(ThemedSegments(count, availableTypes, theme)) } }

\* variant: the loop stops after the first boss
RECURSIVE InsertBossesSingle(_, _, _, _, _)
InsertBossesSingle(spaced, spacing, bossCount, bossType, i) ==
  IF i >= Min2(bossCount, 1) THEN spaced
  ELSE InsertBossesSingle(InsertAt(spaced, Min2(Len(spaced), spacing * (i + 1) + i), bossType),
                          spacing, bossCount, bossType, i + 1)

\* variant: the insertion index ignores the bosses already spliced in
RECURSIVE InsertBossesNoShift(_, _, _, _, _)
InsertBossesNoShift(spaced, spacing, bossCount, bossType, i) ==
  IF i >= bossCount THEN spaced
  ELSE InsertBossesNoShift(InsertAt(spaced, Min2(Len(spaced), spacing * (i + 1)), bossType),
                           spacing, bossCount, bossType, i + 1)

\* the for loop that splices the bosses into the support composition
RECURSIVE InsertBosses(_, _, _, _, _)
InsertBosses(spaced, spacing, bossCount, bossType, i) ==
  IF i >= bossCount THEN spaced
  ELSE InsertBosses(InsertAt(spaced, Min2(Len(spaced), spacing * (i + 1) + i), bossType),
                    spacing, bossCount, bossType, i + 1)

\* variant: the support composition is not shortened by the bosses
generateWaveCompositionFullSupport(count, availableTypes, theme, isBossWave, roster, wave) ==
  LET availableBosses == getAvailableBossTypes(roster, wave)
      maxBosses == Max2(1, wave \div 25)
      bossCount == Min2(count, maxBosses)
  IN  IF isBossWave /\ Len(availableBosses) > 0
        THEN UNION { { IF Len(supportComposition) = 0
                         THEN Replicate(bossType, bossCount)
                         ELSE InsertBosses(supportComposition,
                                Max2(1, Len(supportComposition) \div (bossCount + 1)),
                                bossCount, bossType, 0) :
                       supportComposition \in
                         generateThemedComposition(count, availableTypes, BOSS_SUPPORT_THEME) } :
                     bossType \in { availableBosses[i] : i \in 1..Len(availableBosses) } }
        ELSE generateThemedComposition(count, availableTypes, theme)

\* the set of sequences generateWaveComposition can return
generateWaveComposition(count, availableTypes, theme, isBossWave, roster, wave) ==
  LET availableBosses == getAvailableBossTypes(roster, wave)
      maxBosses == Max2(1, wave \div 25)
      bossCount == Min2(count, maxBosses)
      remaining == Max2(0, count - bossCount)
  IN  IF isBossWave /\ Len(availableBosses) > 0
        THEN UNION { { IF Len(supportComposition) = 0
                         THEN Replicate(bossType, bossCount)
                         ELSE InsertBosses(supportComposition,
                                Max2(1, Len(supportComposition) \div (bossCount + 1)),
                                bossCount, bossType, 0) :
                       supportComposition \in
                         generateThemedComposition(remaining, availableTypes, BOSS_SUPPORT_THEME) } :
                     bossType \in { availableBosses[i] : i \in 1..Len(availableBosses) } }
        ELSE generateThemedComposition(count, availableTypes, theme)

\* generateWaveComposition from the support composition on: all bosses when
\* there is no support, else the bosses spliced in at the spacing
SpliceBosses(supportComposition, bossCount, bossType) ==
  IF Len(supportComposition) = 0
    THEN Replicate(bossType, bossCount)
    ELSE InsertBosses(supportComposition,
                      Max2(1, Len(supportComposition) \div (bossCount + 1)),
                      bossCount, bossType, 0)


(***************************************************************************)
(* State                                                                   *)
(***************************************************************************)
VARIABLES
  \* WaveSystemV2 fields
  currentWave, isSpawning, waveInProgress, spawnTimers,
  enemiesSpawnedThisWave, enemies, enemyCountMultiplier,
  \* scene.time: every TimerEvent created by delayedCall, in creation order
  timers,
  \* BattleScene.isPaused
  isPaused,
  \* observation: the return value of the last startNextWave call, the
  \* notifications emitted, the composition of each wave and what has been spawned for it,
  \* and the number of timers that existed at the last clear() and at the
  \* last pauseSpawning()
  lastStartResult, waveStartedCount, waveCompleteLog, plan, spawnedLog, clearMark,
  pauseMark,
  \* calculateEffectiveDamage: the last call and its result
  dmgCall, dmgResult,
  \* generateWaveComposition / scheduling: the last composed wave
  composed,
  \* BattleScene: game speed (this.gameSpeed), accumulated game time, game over flag, the
  \* wave delay timer and this.time.now - this.waveDelayStartTime
  sceneGameSpeed, gameTime, gameOver, hasGameStarted, waveDelayTimer, waveDelayElapsed,
  \* BattleScene.gameTime when the current wave was started, and for every
  \* dispatched wave event the game time that had passed since then
  waveStartGameTime, fireLog,
  \* number of setGameSpeed calls so far
  speedChanges,
  \* BattleScene: gold, the placed towers and the tower id counter
  gold, towers, towerIdCounter,
  \* TowerActionPanel: the tower shown (0 when hidden), the action lock, the
  \* upgrade button's canAfford datum and the pending delayed calls
  panelTower, isProcessingAction, canAfford, panelCalls,
  \* for every tower id, the gold upgradeTower has deducted for it
  upgradePaid,
  \* number of 'enemyKilled' events handled so far
  kills,
  \* BattleScene.lives and BattleScene.projectiles
  lives, projectiles,
  \* every EnemyUnit object created so far, by id; with these this.enemies
  \* holds the ids of the units in the collection
  unitObjs,
  \* for every unit: how often 'enemyReachedBase' and 'enemyKilled' were
  \* emitted for it, how often it was taken out of the collection, and how
  \* often update() was called on it after that
  unitLog,
  \* number of defeat() calls, and of loseLife() calls after the game was over
  defeatCount, lateLifeLoss

rtVars == << currentWave, isSpawning, waveInProgress, spawnTimers,
             enemiesSpawnedThisWave, enemies, enemyCountMultiplier, timers,
             isPaused, lastStartResult, waveStartedCount, waveCompleteLog, plan,
             spawnedLog, clearMark, pauseMark >>
dmgVars == << dmgCall, dmgResult >>
compVars == << composed >>
speedVars == << sceneGameSpeed, gameTime, gameOver, hasGameStarted, waveDelayTimer,
                waveDelayElapsed, waveStartGameTime, fireLog, speedChanges >>
econVars == << gold, towers, towerIdCounter, panelTower, isProcessingAction,
               canAfford, panelCalls, upgradePaid, kills >>
baseVars == << lives, projectiles, unitObjs, unitLog, defeatCount, lateLifeLoss >>
sceneVars == << speedVars, econVars, baseVars >>
vars == << rtVars, dmgVars, compVars, sceneVars >>

(***************************************************************************)
(* Inputs                                                                  *)
(***************************************************************************)
\* config.countMultiplier in hundredths
CountMultipliers == {25}

\* the gameSpeed argument of startNextWave (BattleScene.cycleGameSpeed)
GameSpeeds == {1, 2, 4}

\* Phaser frame deltas, in quarter milliseconds
FrameDeltas == {2000}

\* number of update() calls an enemy needs to walk the path
PathLength == 1

(***************************************************************************)
(* WaveSystemV2: runtime                                                   *)
(***************************************************************************)
RtInit ==
  /\ currentWave = 0
  /\ isSpawning = FALSE
  /\ waveInProgress = FALSE
  /\ spawnTimers = << >>
  /\ enemiesSpawnedThisWave = 0
  /\ enemies = << >>
  /\ enemyCountMultiplier \in CountMultipliers
  /\ timers = << >>
  /\ isPaused = FALSE
  /\ lastStartResult = "none"
  /\ waveStartedCount = 0
  /\ waveCompleteLog = << >>
  /\ plan = << >>
  /\ spawnedLog = << >>
  /\ clearMark = 0
  /\ pauseMark = 0

NoCall == [ op |-> "none" ]
DmgIdle == dmgCall = NoCall /\ dmgResult = 0
CompIdle == composed = NoCall

Pending(t) == ~t.hasDispatched /\ ~t.destroyed

\* the TimerEvents startNextWave creates for a composition: one spawn timer
\* per archetype and the spawning-finished marker; delays in quarter ms
SpawnTimer(wave, index, enemyType, spawnInterval, gameSpeed) ==
  [ kind |-> "spawn", wave |-> wave, index |-> index, enemyType |-> enemyType,
    delay |-> (index * spawnInterval) * (4 \div gameSpeed),
    elapsed |-> 0, paused |-> FALSE, hasDispatched |-> FALSE, destroyed |-> FALSE ]

MarkerTimer(wave, length, spawnInterval, gameSpeed) ==
  [ kind |-> "marker", wave |-> wave, index |-> length, enemyType |-> "none",
    delay |-> ((length - 1) * spawnInterval + 500) * (4 \div gameSpeed),
    elapsed |-> 0, paused |-> FALSE, hasDispatched |-> FALSE, destroyed |-> FALSE ]

ScheduledSpawns(wave, waveComposition, spawnInterval, gameSpeed) ==
  [ i \in 1..Len(waveComposition) |->
      SpawnTimer(wave, i - 1, waveComposition[i], spawnInterval, gameSpeed) ]

\* the ids startNextWave pushes to this.spawnTimers
TrackedTimerIds(firstId, length) == [ i \in 1..length |-> firstId + i - 1 ]

\* variant: the guard tests the spawning flag instead
StartRejectedWhileSpawning == isSpawning

\* if (this.waveInProgress) return false
StartRejected == waveInProgress

StartNextWave(gameSpeed) ==
  IF StartRejected
    THEN /\ lastStartResult' = FALSE
         /\ UNCHANGED << currentWave, isSpawning, waveInProgress, spawnTimers,
                         enemiesSpawnedThisWave, enemies, enemyCountMultiplier,
                         timers, isPaused, waveStartedCount, waveCompleteLog,
                         plan, spawnedLog, clearMark, pauseMark >>
    ELSE /\ currentWave < MaxWave
         /\ LET wave == currentWave + 1
                availableTypes == getAvailableEnemyTypes(EnemyKeys, wave)
                isBossWave == wave % 10 = 0 /\ wave > 0
                theme == getWaveTheme(availableTypes, isBossWave, wave)
                scaling == getWaveScaling(wave, enemyCountMultiplier, theme)
            IN  \E waveComposition \in
                     generateWaveComposition(scaling.enemyCount, availableTypes,
                                             theme, isBossWave, EnemyKeys, wave) :
                  /\ currentWave' = wave
                  /\ waveInProgress' = TRUE
                  /\ isSpawning' = TRUE
                  /\ enemiesSpawnedThisWave' = 0
                  /\ waveStartedCount' = waveStartedCount + 1
                  /\ timers' = timers
                       \o ScheduledSpawns(wave, waveComposition, scaling.spawnInterval, gameSpeed)
                       \o << MarkerTimer(wave, Len(waveComposition), scaling.spawnInterval, gameSpeed) >>
                  /\ spawnTimers' = spawnTimers
                       \o TrackedTimerIds(Len(timers) + 1, Len(waveComposition))
                  /\ plan' = Append(plan, waveComposition)
                  /\ spawnedLog' = Append(spawnedLog, << >>)
                  /\ lastStartResult' = TRUE
         /\ UNCHANGED << enemies, enemyCountMultiplier, isPaused,
                         waveCompleteLog, clearMark, pauseMark >>

\* spawnEnemy: the unit pushed to this.enemies
NewEnemy(t) == [ enemyType |-> t.enemyType, wave |-> t.wave, isDead |-> FALSE, progress |-> 0 ]

\* Phaser Clock.update on one TimerEvent: skip a paused, dispatched or
\* destroyed event, otherwise advance it and run its callback when due
StepTimer(st, i, delta) ==
  LET t == st.timers[i]
  IN  IF t.hasDispatched \/ t.destroyed \/ t.paused THEN st
      ELSE IF t.elapsed + delta < t.delay
        THEN [st EXCEPT !.timers[i].elapsed = t.elapsed + delta]
      ELSE LET fired == [st EXCEPT !.timers[i].elapsed = t.delay,
                                   !.timers[i].hasDispatched = TRUE]
           IN  IF t.kind = "spawn"
                 THEN [fired EXCEPT !.enemies = Append(st.enemies, NewEnemy(t)),
                                    !.enemiesSpawnedThisWave = st.enemiesSpawnedThisWave + 1,
                                    !.spawnedLog[t.wave] = Append(st.spawnedLog[t.wave], t.enemyType)]
                 ELSE [fired EXCEPT !.isSpawning = FALSE]

RECURSIVE StepTimers(_, _, _)
StepTimers(st, i, delta) ==
  IF i > Len(st.timers) THEN st
  ELSE StepTimers(StepTimer(st, i, delta), i + 1, delta)

\* one frame of scene.time: the events are visited in creation order
ClockTick(delta) ==
  /\ \E i \in 1..Len(timers) : Pending(timers[i])
  /\ LET st == StepTimers([ timers |-> timers, enemies |-> enemies,
                            enemiesSpawnedThisWave |-> enemiesSpawnedThisWave,
                            spawnedLog |-> spawnedLog, isSpawning |-> isSpawning ],
                          1, delta)
     IN  /\ timers' = st.timers
         /\ enemies' = st.enemies
         /\ enemiesSpawnedThisWave' = st.enemiesSpawnedThisWave
         /\ spawnedLog' = st.spawnedLog
         /\ isSpawning' = st.isSpawning
  /\ UNCHANGED << currentWave, waveInProgress, spawnTimers, enemyCountMultiplier,
                  isPaused, waveStartedCount, waveCompleteLog, plan, clearMark, lastStartResult, pauseMark >>

\* variant: a unit that has reached the end of the path is kept
RECURSIVE UpdateEnemiesNoExit(_)
UpdateEnemiesNoExit(es) ==
  IF es = << >> THEN << >>
  ELSE LET enemy == Head(es)
       IN  IF enemy.isDead THEN UpdateEnemiesNoExit(Tail(es))
           ELSE << [enemy EXCEPT !.progress = Min2(PathLength, enemy.progress + 1)] >>
                  \o UpdateEnemiesNoExit(Tail(es))

\* the enemy loop of update(): dead units are dropped, the others advance
\* and are dropped when they have reached the end
RECURSIVE UpdateEnemies(_)
UpdateEnemies(es) ==
  IF es = << >> THEN << >>
  ELSE LET enemy == Head(es)
       IN  IF enemy.isDead THEN UpdateEnemies(Tail(es))
           ELSE IF enemy.progress + 1 >= PathLength THEN UpdateEnemies(Tail(es))
           ELSE << [enemy EXCEPT !.progress = enemy.progress + 1] >> \o UpdateEnemies(Tail(es))

UnspawnedOf(wave) ==
  Cardinality({ i \in 1..Len(timers) :
                  timers[i].kind = "spawn" /\ timers[i].wave = wave /\ ~timers[i].hasDispatched })

\* update(), called by BattleScene.update only while the game is not paused
Update ==
  /\ ~isPaused
  /\ enemies' = UpdateEnemies(enemies)
  /\ IF waveInProgress /\ ~isSpawning /\ Len(enemies') = 0
       THEN /\ waveInProgress' = FALSE
            /\ waveCompleteLog' = Append(waveCompleteLog,
                 [ wave |-> currentWave, nextWave |-> currentWave + 1,
                   unspawned |-> UnspawnedOf(currentWave), isSpawning |-> isSpawning,
                   active |-> Len(enemies') ])
       ELSE UNCHANGED << waveInProgress, waveCompleteLog >>
  /\ UNCHANGED << currentWave, isSpawning, spawnTimers, enemiesSpawnedThisWave,
                  enemyCountMultiplier, timers, isPaused, waveStartedCount,
                  plan, spawnedLog, clearMark, lastStartResult, pauseMark >>

\* variant: the loop stops one short of the last tracked timer
SetPausedButLast(ts, tracked, value) ==
  [ i \in 1..Len(ts) |->
      IF (\E k \in 1..(Len(tracked) - 1) : tracked[k] = i) /\ ~ts[i].hasDispatched
        THEN [ts[i] EXCEPT !.paused = value]
        ELSE ts[i] ]

\* timer.paused = value for every tracked timer that has not dispatched
SetPaused(ts, tracked, value) ==
  [ i \in 1..Len(ts) |->
      IF (\E k \in 1..Len(tracked) : tracked[k] = i) /\ ~ts[i].hasDispatched
        THEN [ts[i] EXCEPT !.paused = value]
        ELSE ts[i] ]

\* pauseSpawning(), from the pausing branch of BattleScene.togglePause
PauseSpawning ==
  /\ ~isPaused
  /\ isPaused' = TRUE
  /\ pauseMark' = Len(timers)
  /\ timers' = SetPaused(timers, spawnTimers, TRUE)
  /\ UNCHANGED << currentWave, isSpawning, waveInProgress, spawnTimers,
                  enemiesSpawnedThisWave, enemies, enemyCountMultiplier,
                  waveStartedCount, waveCompleteLog, plan, spawnedLog, clearMark,
                  lastStartResult >>

\* resumeSpawning(), from the resuming branch of BattleScene.togglePause
ResumeSpawning ==
  /\ isPaused
  /\ isPaused' = FALSE
  /\ timers' = SetPaused(timers, spawnTimers, FALSE)
  /\ UNCHANGED << currentWave, isSpawning, waveInProgress, spawnTimers,
                  enemiesSpawnedThisWave, enemies, enemyCountMultiplier,
                  waveStartedCount, waveCompleteLog, plan, spawnedLog, clearMark,
                  lastStartResult, pauseMark >>

\* timer.destroy() for every tracked timer
DestroyTracked(ts, tracked) ==
  [ i \in 1..Len(ts) |->
      IF \E k \in 1..Len(tracked) : tracked[k] = i
        THEN [ts[i] EXCEPT !.destroyed = TRUE, !.paused = FALSE, !.elapsed = 0]
        ELSE ts[i] ]

Clear ==
  /\ timers' = DestroyTracked(timers, spawnTimers)
  /\ spawnTimers' = << >>
  /\ enemies' = << >>
  /\ waveInProgress' = FALSE
  /\ isSpawning' = FALSE
  /\ clearMark' = Len(timers)
  /\ UNCHANGED << currentWave, enemiesSpawnedThisWave, enemyCountMultiplier,
                  isPaused, waveStartedCount, waveCompleteLog, plan, spawnedLog,
                  lastStartResult, pauseMark >>

\* a projectile hit that kills unit i: EnemyUnit.takeDamage -> die
KillEnemy(i) ==
  /\ ~isPaused
  /\ ~enemies[i].isDead
  /\ enemies' = [enemies EXCEPT ![i].isDead = TRUE]
  /\ UNCHANGED << currentWave, isSpawning, waveInProgress, spawnTimers,
                  enemiesSpawnedThisWave, enemyCountMultiplier, timers, isPaused,
                  waveStartedCount, waveCompleteLog, plan, spawnedLog, clearMark,
                  lastStartResult, pauseMark >>

\* BattleScene.init and create, before startGame
SpeedInit ==
  /\ sceneGameSpeed = 1
  /\ gameTime = 0
  /\ gameOver = FALSE
  /\ hasGameStarted = FALSE
  /\ waveDelayTimer = [ state |-> "none", delay |-> 0, elapsed |-> 0 ]
  /\ waveDelayElapsed = 0
  /\ waveStartGameTime = 0
  /\ fireLog = << >>
  /\ speedChanges = 0

\* GAME_CONFIG.STARTING_GOLD
STARTING_GOLD == 150

\* number of towers placed in one game
MaxPlacements == 2

\* BattleScene.init and the TowerActionPanel constructor
EconInit ==
  /\ gold = STARTING_GOLD
  /\ towers = << >>
  /\ towerIdCounter = 0
  /\ panelTower = 0
  /\ isProcessingAction = FALSE
  /\ canAfford = FALSE
  /\ panelCalls = {}
  /\ upgradePaid = [ id \in 1..MaxPlacements |-> 0 ]
  /\ kills = 0

\* this.lives = 20 in BattleScene.init
STARTING_LIVES == 20

\* BattleScene.init: lives and projectiles; no unit has been created
BaseInit ==
  /\ lives = STARTING_LIVES
  /\ projectiles = << >>
  /\ unitObjs = << >>
  /\ unitLog = << >>
  /\ defeatCount = 0
  /\ lateLifeLoss = 0

SceneInit == SpeedInit /\ EconInit /\ BaseInit

Init == RtInit /\ DmgIdle /\ CompIdle /\ SceneInit

(***************************************************************************)
(* Projectile.hit -> calculateEffectiveDamage on bounded inputs             *)
(***************************************************************************)
DamageBases == {0, 1, 7, 13, 33}

DamageTowers == DOMAIN TOWER_DAMAGE_PROFILES \cup {"unprofiled_tower"}

\* no tags, every single tag, every ordered pair of distinct tags, and the
\* three tags of dark_lord
DamageTagLists ==
  { << >> } \cup { << a >> : a \in EnemyType }
    \cup { p \in { << a, b >> : a \in EnemyType, b \in EnemyType } : p[1] # p[2] }
    \cup { ENEMY_CONFIGS["dark_lord"].enemyTypes }

\* the one input of the domain on which the double arithmetic of the source
\* and the exact arithmetic of the model differ: (0.825 + 1.175) / 2 is
\* 0.9999999999999999 in doubles
RoundingSensitive(towerId, enemyTypes) ==
  /\ towerId = "ironspike_launcher"
  /\ { enemyTypes[i] : i \in 1..Len(enemyTypes) } = {"boss", "swarm"}

DamageCall ==
  /\ dmgCall = NoCall
  /\ \E baseDamage \in DamageBases, towerId \in DamageTowers, enemyTypes \in DamageTagLists :
       /\ ~RoundingSensitive(towerId, enemyTypes)
       /\ dmgCall' = [ op |-> "calculateEffectiveDamage", baseDamage |-> baseDamage, towerId |-> towerId, enemyTypes |-> enemyTypes ]
       /\ dmgResult' = calculateEffectiveDamage(baseDamage, towerId, enemyTypes)
  /\ UNCHANGED << rtVars, compVars, sceneVars >>

SpecDamage == Init /\ [][DamageCall]_vars

(***************************************************************************)
(* startNextWave on bounded wave numbers: composition and scheduling only  *)
(***************************************************************************)
\* wave numbers that reach every early, new-threat, cycle and boss theme,
\* with one, two and (wave 50) two bosses
ComposeWaves == (1..21) \cup {30, 50}

\* this.enemyTypes: the shipped catalogue, no archetype, an archetype without
\* a configuration, and catalogues without a boss or without a focus archetype
ComposeRosters ==
  { EnemyKeys, << >>, << "unknown_archetype" >>, << "goblin", "tnt_runner" >>,
    << "goblin", "footman", "warlord" >> }

ComposeWave ==
  /\ composed = NoCall
  /\ \E wave \in ComposeWaves, countPct \in CountMultipliers \cup {0, 100},
        gameSpeed \in GameSpeeds, roster \in ComposeRosters :
       LET availableTypes == getAvailableEnemyTypes(roster, wave)
           isBossWave == wave % 10 = 0 /\ wave > 0
           theme == getWaveTheme(availableTypes, isBossWave, wave)
           scaling == getWaveScaling(wave, countPct, theme)
           bossBranch == isBossWave /\ Len(getAvailableBossTypes(roster, wave)) > 0
           themedTheme == IF bossBranch THEN BOSS_SUPPORT_THEME ELSE theme
           themedCount == IF bossBranch
                            THEN Max2(0, scaling.enemyCount
                                          - Min2(scaling.enemyCount, Max2(1, wave \div 25)))
                            ELSE scaling.enemyCount
       IN  /\ countPct = 100 => (wave <= 3 \/ (wave <= 20 /\ roster = EnemyKeys))
           /\ \E waveComposition \in
                  generateWaveComposition(scaling.enemyCount, availableTypes,
                                          theme, isBossWave, roster, wave) :
                composed' = [ op |-> "startNextWave", wave |-> wave, countPct |-> countPct, theme |-> theme.id,
                              enemyCount |-> scaling.enemyCount,
                              spawnInterval |-> scaling.spawnInterval,
                              waveComposition |-> waveComposition,
                              scheduled |-> ScheduledSpawns(wave, waveComposition,
                                              scaling.spawnInterval, gameSpeed),
                              roster |-> roster,
                              availableTypes |-> availableTypes,
                              isBossWave |-> isBossWave,
                              waveTheme |-> theme,
                              themedTheme |-> themedTheme,
                              themedCount |-> themedCount,
                              pools |-> ResolvedPools(availableTypes, themedTheme),
                              counts |-> allocateThemeCounts(themedCount, themedTheme),
                              segmentCount |-> getSegmentCount(themedCount, themedTheme.segmentCount),
                              segments |-> ThemedSegments(themedCount, availableTypes, themedTheme) ]
  /\ UNCHANGED << rtVars, dmgVars, sceneVars >>

SpecCompose == Init /\ [][ComposeWave]_vars

(***************************************************************************)
(* the same wave composed twice                                            *)
(***************************************************************************)
\* (wave, count multiplier in hundredths): every wave of ComposeWaves at
\* 0.25 and wave 2 at 1
ReplayInputs == { << w, 25 >> : w \in ComposeWaves } \cup { << 2, 100 >> }

ReplayWave ==
  /\ composed = NoCall
  /\ \E input \in ReplayInputs :
       LET wave == input[1]
           countPct == input[2]
           availableTypes == getAvailableEnemyTypes(EnemyKeys, wave)
           isBossWave == wave % 10 = 0 /\ wave > 0
           theme == getWaveTheme(availableTypes, isBossWave, wave)
           bossBranch == isBossWave /\ Len(getAvailableBossTypes(EnemyKeys, wave)) > 0
           themedTheme == IF bossBranch THEN BOSS_SUPPORT_THEME ELSE theme
           run(scaling) ==
             { [ scaling |-> scaling, theme |-> theme.id, waveComposition |-> waveComposition ] :
                 waveComposition \in
                   generateWaveComposition(scaling.enemyCount, availableTypes,
                                           theme, isBossWave, EnemyKeys, wave) }
           themedCount(scaling) ==
             IF bossBranch
               THEN Max2(0, scaling.enemyCount
                             - Min2(scaling.enemyCount, Max2(1, wave \div 25)))
               ELSE scaling.enemyCount
       IN  \E first \in run(getWaveScaling(wave, countPct, theme)),
              second \in run(getWaveScaling(wave, countPct, theme)) :
             composed' = [ op |-> "replay", wave |-> wave, countPct |-> countPct,
                           first |-> first, second |-> second,
                           pools |-> ResolvedPools(availableTypes, themedTheme),
                           segments |-> ThemedSegments(themedCount(first.scaling),
                                                       availableTypes, themedTheme) ]
  /\ UNCHANGED << rtVars, dmgVars, sceneVars >>

SpecReplay == Init /\ [][ReplayWave]_vars

(***************************************************************************)
(* allocateThemeCounts on bounded totals and ratios                        *)
(***************************************************************************)
MaxTotal == 12

\* ratios in hundredths, not normalised
AllocateRatios == {0, 10, 25, 60, 100, 150}

AllocateCall ==
  /\ composed = NoCall
  /\ \E total \in 0..MaxTotal, fr \in AllocateRatios, sr \in AllocateRatios,
        wr \in AllocateRatios :
       LET ratioTotal == fr + sr + wr
       IN  \E focus0 \in (IF ratioTotal > 0 THEN FloatFloors(total, fr, ratioTotal) ELSE {total}),
              support0 \in (IF ratioTotal > 0 THEN FloatFloors(total, sr, ratioTotal) ELSE {0}) :
             composed' = [ op |-> "allocateThemeCounts", total |-> total,
                           focusRatio |-> fr, supportRatio |-> sr, wildcardRatio |-> wr,
                           exact |-> allocateThemeCounts(total,
                                       Theme("input", {}, {}, {}, fr, sr, wr, 1, 100)),
                           counts |-> AllocateFrom(total, focus0, support0) ]
  /\ UNCHANGED << rtVars, dmgVars, sceneVars >>

SpecAllocate == Init /\ [][AllocateCall]_vars

(***************************************************************************)
(* the boss splice on its own                                              *)
(***************************************************************************)
MaxSupportLength == 6
MaxBossCount == 3

\* archetypes BOSS_SUPPORT_THEME resolves to, and the boss archetypes
SpliceSupportTypes == { "footman", "goblin" }
SpliceBossTypes == { EnemyKeys[i] : i \in { j \in 1..Len(EnemyKeys) : IsBoss(EnemyKeys[j]) } }

SpliceCall ==
  /\ composed = NoCall
  /\ \E n \in 0..MaxSupportLength, bossCount \in 1..MaxBossCount,
        bossType \in SpliceBossTypes :
       \E supportComposition \in [1..n -> SpliceSupportTypes] :
         composed' = [ op |-> "spliceBosses", supportComposition |-> supportComposition,
                       bossCount |-> bossCount, bossType |-> bossType,
                       spaced |-> SpliceBosses(supportComposition, bossCount, bossType) ]
  /\ UNCHANGED << rtVars, dmgVars, sceneVars >>

SpecSplice == Init /\ [][SpliceCall]_vars

(***************************************************************************)
(* buildSequenceFromPool on its own                                        *)
(***************************************************************************)
MaxBuildCount == 9

\* pools as getEnemyPoolByTypes returns them: archetypes in catalogue order,
\* none twice
BuildPools ==
  { << >>, << "goblin" >>, << "goblin", "footman" >>,
    << "goblin", "footman", "archer" >>,
    << "goblin", "tnt_runner", "footman", "archer" >> }

BuildCall ==
  /\ composed = NoCall
  /\ \E pool \in BuildPools, count \in 0..MaxBuildCount :
       \E sequence \in buildSequenceFromPool(pool, count) :
         composed' = [ op |-> "buildSequenceFromPool", pool |-> pool,
                       count |-> count, sequence |-> sequence ]
  /\ UNCHANGED << rtVars, dmgVars, sceneVars >>

SpecBuild == Init /\ [][BuildCall]_vars

(***************************************************************************)
(* BattleScene.selectDifficulty and the wave system it creates             *)
(***************************************************************************)
MaxDifficultyWave == 40

\* damage.config.ts DIFFICULTY_CONFIG, multipliers in hundredths
DIFFICULTY_CONFIG ==
  [ easy   |-> [ rewardMultiplier |-> 100, healthMultiplier |-> 100,
                 countMultiplier |-> 95,  speedMultiplier |-> 95 ],
    normal |-> [ rewardMultiplier |-> 75,  healthMultiplier |-> 125,
                 countMultiplier |-> 105, speedMultiplier |-> 105 ],
    hard   |-> [ rewardMultiplier |-> 50,  healthMultiplier |-> 150,
                 countMultiplier |-> 115, speedMultiplier |-> 108 ] ]

\* the configuration object selectDifficulty passes to new WaveSystemV2
SelectedWaveConfig(diffConfig) ==
  [ rewardMultiplier |-> diffConfig.rewardMultiplier,
    healthMultiplier |-> diffConfig.healthMultiplier ]

\* config.x ?? 1.0
ConfigOr(config, field) ==
  IF field \in DOMAIN config THEN config[field] ELSE 100

\* the multiplier fields after the WaveSystemV2 constructor
NewWaveSystem(config) ==
  [ rewardMultiplier     |-> ConfigOr(config, "rewardMultiplier"),
    healthMultiplier     |-> ConfigOr(config, "healthMultiplier"),
    enemyCountMultiplier |-> ConfigOr(config, "countMultiplier"),
    speedMultiplier      |-> ConfigOr(config, "speedMultiplier") ]

\* getWaveScaling speedMultiplier, in ten-thousandths
ScalingSpeedMultiplier(wave, speedPct) == (100 + Min2(wave * 4, 50)) * speedPct

\* selectDifficulty, then the scaling of a wave of the created system
SelectDifficulty ==
  /\ composed = NoCall
  /\ \E difficulty \in DOMAIN DIFFICULTY_CONFIG, wave \in 1..MaxDifficultyWave :
       LET waveSystem == NewWaveSystem(SelectedWaveConfig(DIFFICULTY_CONFIG[difficulty]))
       IN  composed' = [ op |-> "selectDifficulty", difficulty |-> difficulty,
                         waveSystem |-> waveSystem, wave |-> wave,
                         enemyCount |-> ScalingEnemyCount(wave, waveSystem.enemyCountMultiplier),
                         speedMultiplier |->
                           ScalingSpeedMultiplier(wave, waveSystem.speedMultiplier) ]
  /\ UNCHANGED << rtVars, dmgVars, sceneVars >>

SpecDifficulty == Init /\ [][SelectDifficulty]_vars

(***************************************************************************)
(* BattleScene: frames, wave delay and game speed                          *)
(***************************************************************************)
\* number of game speed changes in one game
MaxSpeedChanges == 2

\* WAVE_DELAY_BASE, in quarter milliseconds
WAVE_DELAY_BASE == 40000

\* scheduleNextWave: the delayed call created at the given game speed
ScheduledWaveDelay(speed) ==
  [ state |-> "pending", delay |-> WAVE_DELAY_BASE \div speed, elapsed |-> 0 ]

\* waveComplete: floor((12 + wave * 3 + wave^1.1) * rewardMultiplier) at
\* reward multiplier 1, for waves 1 .. 4
WaveBonusGold == << 16, 20, 24, 28 >>

\* startGame -> scheduleNextWave
StartGame ==
  /\ ~hasGameStarted
  /\ hasGameStarted' = TRUE
  /\ isPaused' = FALSE
  /\ waveDelayTimer' = ScheduledWaveDelay(sceneGameSpeed)
  /\ waveDelayElapsed' = 0
  /\ UNCHANGED << currentWave, isSpawning, waveInProgress, spawnTimers,
                  enemiesSpawnedThisWave, enemies, enemyCountMultiplier, timers,
                  lastStartResult, waveStartedCount, waveCompleteLog, plan,
                  spawnedLog, clearMark, pauseMark >>
  /\ UNCHANGED << sceneGameSpeed, gameTime, gameOver, waveStartGameTime, fireLog,
                  speedChanges >>

\* cycleGameSpeed: 1x -> 2x -> 4x -> 1x
NextGameSpeed(speed) == IF speed = 4 THEN 1 ELSE 2 * speed

\* cycleGameSpeed -> setGameSpeed: the wave delay timer is re-created for the
\* remaining base time; the spawn timers of a running wave are not touched
CycleGameSpeed ==
  LET speed == NextGameSpeed(sceneGameSpeed)
      baseTimeElapsed == waveDelayElapsed * sceneGameSpeed
      baseTimeRemaining == WAVE_DELAY_BASE - baseTimeElapsed
  IN  /\ speedChanges < MaxSpeedChanges
      /\ speedChanges' = speedChanges + 1
      /\ sceneGameSpeed' = speed
      /\ IF waveDelayTimer.state = "pending" /\ baseTimeRemaining > 0
           THEN /\ waveDelayTimer' = [ state |-> "pending",
                                       delay |-> baseTimeRemaining \div speed,
                                       elapsed |-> 0 ]
                /\ waveDelayElapsed' = baseTimeElapsed \div speed
           ELSE UNCHANGED << waveDelayTimer, waveDelayElapsed >>
      /\ UNCHANGED << rtVars, gameTime, gameOver, hasGameStarted,
                      waveStartGameTime, fireLog >>

\* the events of `before` that were dispatched in this frame, with the game
\* time that has passed since the wave start
FiredLog(before, after, gameElapsed) ==
  LET fired == SelectSeq([ i \in 1..Len(before) |-> i ],
                         LAMBDA i : ~before[i].hasDispatched /\ after[i].hasDispatched)
  IN  [ k \in 1..Len(fired) |->
          [ wave |-> after[fired[k]].wave, kind |-> after[fired[k]].kind,
            index |-> after[fired[k]].index, gameElapsed |-> gameElapsed ] ]

\* a frame while the wave delay timer is pending: the clock advances the
\* timer and runs its callback when due (startNextWave at the current game
\* speed), then BattleScene.update accumulates the game time
DelayFrame(delta) ==
  /\ waveDelayTimer.state = "pending"
  /\ ~gameOver /\ ~isPaused
  /\ gameTime' = gameTime + delta * sceneGameSpeed
  /\ waveDelayElapsed' = waveDelayElapsed + delta
  /\ IF waveDelayTimer.elapsed + delta < waveDelayTimer.delay
       THEN /\ waveDelayTimer' = [waveDelayTimer EXCEPT !.elapsed = @ + delta]
            /\ UNCHANGED << rtVars, waveStartGameTime >>
       ELSE /\ waveDelayTimer' = [waveDelayTimer EXCEPT !.state = "dispatched",
                                                        !.elapsed = waveDelayTimer.delay]
            /\ StartNextWave(sceneGameSpeed)
            /\ waveStartGameTime' = gameTime
  /\ UNCHANGED << sceneGameSpeed, gameOver, hasGameStarted, fireLog, speedChanges >>

\* a frame while a wave is running: the clock steps the wave's events, then
\* BattleScene.update accumulates the game time and runs the wave system's
\* update, whose waveComplete schedules the next wave
WaveFrame(delta) ==
  /\ waveDelayTimer.state # "pending"
  /\ ~gameOver /\ ~isPaused
  /\ \E i \in 1..Len(timers) : Pending(timers[i])
  /\ LET st == StepTimers([ timers |-> timers, enemies |-> enemies,
                            enemiesSpawnedThisWave |-> enemiesSpawnedThisWave,
                            spawnedLog |-> spawnedLog, isSpawning |-> isSpawning ],
                          1, delta)
         remaining == UpdateEnemies(st.enemies)
         complete == waveInProgress /\ ~st.isSpawning /\ Len(remaining) = 0
     IN  /\ timers' = st.timers
         /\ enemies' = remaining
         /\ enemiesSpawnedThisWave' = st.enemiesSpawnedThisWave
         /\ spawnedLog' = st.spawnedLog
         /\ isSpawning' = st.isSpawning
         /\ fireLog' = fireLog \o FiredLog(timers, st.timers, gameTime - waveStartGameTime)
         /\ gameTime' = gameTime + delta * sceneGameSpeed
         /\ IF complete
              THEN /\ waveInProgress' = FALSE
                   /\ waveCompleteLog' = Append(waveCompleteLog,
                        [ wave |-> currentWave, nextWave |-> currentWave + 1,
                          unspawned |-> 0, isSpawning |-> st.isSpawning,
                          active |-> Len(remaining) ])
                   /\ gold' = gold + WaveBonusGold[currentWave]
                   /\ waveDelayTimer' = ScheduledWaveDelay(sceneGameSpeed)
                   /\ waveDelayElapsed' = 0
              ELSE UNCHANGED << waveInProgress, waveCompleteLog, waveDelayTimer,
                                waveDelayElapsed, gold >>
  /\ UNCHANGED << currentWave, spawnTimers, enemyCountMultiplier, isPaused,
                  waveStartedCount, plan, clearMark, lastStartResult, pauseMark >>
  /\ UNCHANGED << sceneGameSpeed, gameOver, hasGameStarted, waveStartGameTime,
                  speedChanges >>
  /\ UNCHANGED << towers, towerIdCounter, panelTower, isProcessingAction,
                  canAfford, panelCalls, upgradePaid, kills >>

NextSpeed ==
  \/ StartGame /\ UNCHANGED << dmgVars, compVars, econVars, baseVars >>
  \/ CycleGameSpeed /\ UNCHANGED << dmgVars, compVars, econVars, baseVars >>
  \/ (\E delta \in FrameDeltas : DelayFrame(delta))
        /\ UNCHANGED << dmgVars, compVars, econVars, baseVars >>
  \/ (\E delta \in FrameDeltas : WaveFrame(delta))
        /\ UNCHANGED << dmgVars, compVars, baseVars >>

SpecSpeed == Init /\ [][NextSpeed]_vars

(***************************************************************************)
(* BattleScene, Tower and TowerActionPanel: gold and towers                *)
(***************************************************************************)
\* number of kills in one game
MaxKills == 12

\* number of towers standing at the same time
MaxTowers == 1

\* Tower.UPGRADE_MULTIPLIER and Tower.UPGRADE_COOLDOWN (ms)
UPGRADE_MULTIPLIER == 5
UPGRADE_COOLDOWN == 500

\* TOWER_CONFIGS: the cost of two of the nine towers
TOWER_CONFIGS ==
  [ ember_watch |-> [ cost |-> 50 ],
    dread_pyre  |-> [ cost |-> 180 ] ]

\* a scaled reward spawnEnemy computes: dark_lord on wave 20
\* (floor(100 * 1.193)) at reward multiplier 1
KillRewards == {119}

\* frame lengths in ms
PanelFrameDeltas == {175}

RECURSIVE Pow(_, _)
Pow(base, exponent) == IF exponent = 0 THEN 1 ELSE base * Pow(base, exponent - 1)

\* Tower.getUpgradeCost
getUpgradeCost(tower) ==
  IF tower.level >= 3 THEN -1
  ELSE tower.cost * Pow(UPGRADE_MULTIPLIER, tower.level)

\* Tower.getSellPrice
getSellPrice(tower) == tower.totalInvested \div 2

\* the Tower constructor; lastUpgradeTime = 0 lies further back than the
\* cooldown, sinceUpgrade is Date.now() - lastUpgradeTime capped at the cooldown
NewTower(id, towerId) ==
  [ id |-> id, towerId |-> towerId, cost |-> TOWER_CONFIGS[towerId].cost, level |-> 1,
    totalInvested |-> TOWER_CONFIGS[towerId].cost, sinceUpgrade |-> UPGRADE_COOLDOWN ]

\* variant: the cooldown is not checked
TowerUpgradeNoCooldown(tower) ==
  IF tower.level >= 3 THEN tower
  ELSE [tower EXCEPT !.totalInvested = @ + getUpgradeCost(tower),
                     !.level = @ + 1, !.sinceUpgrade = 0]

\* Tower.upgrade: the tower afterwards (unchanged when the call returns 0)
TowerUpgrade(tower) ==
  IF tower.level >= 3 THEN tower
  ELSE IF tower.sinceUpgrade < UPGRADE_COOLDOWN THEN tower
  ELSE [tower EXCEPT !.totalInvested = @ + getUpgradeCost(tower),
                     !.level = @ + 1, !.sinceUpgrade = 0]

\* index in this.towers of the tower with the given id, 0 if it is not there
TowerIndex(ts, id) ==
  IF \E i \in 1..Len(ts) : ts[i].id = id
    THEN CHOOSE i \in 1..Len(ts) : ts[i].id = id
    ELSE 0

\* TowerActionPanel.updateButtonStates: the canAfford datum afterwards
ButtonStates(ts, shown, goldNow, before) ==
  IF shown = 0 \/ TowerIndex(ts, shown) = 0 THEN before
  ELSE LET upgradeCost == getUpgradeCost(ts[TowerIndex(ts, shown)])
       IN  IF upgradeCost > 0 THEN goldNow >= upgradeCost ELSE before

\* variant: the purchase is never refused
NotEnoughGoldNever(goldNow, cost) == FALSE

\* if (this.gold < cost): the purchase is refused
NotEnoughGold(goldNow, cost) == goldNow < cost

\* onTowerDragEnd at a valid position -> placeTower, gold deducted
PlaceTower(towerId) ==
  /\ towerIdCounter < MaxPlacements
  /\ Len(towers) < MaxTowers
  /\ ~NotEnoughGold(gold, TOWER_CONFIGS[towerId].cost)
  /\ towers' = Append(towers, NewTower(towerIdCounter + 1, towerId))
  /\ towerIdCounter' = towerIdCounter + 1
  /\ gold' = gold - TOWER_CONFIGS[towerId].cost
  /\ canAfford' = ButtonStates(towers', panelTower, gold', canAfford)
  /\ UNCHANGED << panelTower, isProcessingAction, panelCalls, upgradePaid, kills >>

\* 'towerSelected' -> selectTower -> showForTower -> updateContent
SelectTower(i) ==
  /\ panelTower' = towers[i].id
  /\ isProcessingAction' = FALSE
  /\ canAfford' = ButtonStates(towers, towers[i].id, gold, canAfford)
  /\ UNCHANGED << gold, towers, towerIdCounter, panelCalls, upgradePaid, kills >>

\* deselectTower -> TowerActionPanel.hide
DeselectTower ==
  /\ panelTower # 0
  /\ panelTower' = 0
  /\ UNCHANGED << gold, towers, towerIdCounter, isProcessingAction, canAfford,
                  panelCalls, upgradePaid, kills >>

\* TowerActionPanel.onUpgrade -> 'requestTowerUpgrade' -> upgradeTower ->
\* Tower.upgrade, and the two delayed calls of the panel
OnUpgrade ==
  /\ panelTower # 0
  /\ ~isProcessingAction
  /\ LET i == TowerIndex(towers, panelTower)
         tower == towers[i]
         upgradeCost == getUpgradeCost(tower)
     IN  /\ upgradeCost >= 0
         /\ canAfford
         /\ isProcessingAction' = TRUE
         /\ panelCalls' = panelCalls \cup { [ kind |-> "updateContent", remaining |-> 50 ],
                                            [ kind |-> "unlock", remaining |-> 350 ] }
         /\ IF NotEnoughGold(gold, upgradeCost)
              THEN UNCHANGED << gold, towers, canAfford, upgradePaid >>
              ELSE /\ gold' = gold - upgradeCost
                   /\ upgradePaid' = [upgradePaid EXCEPT ![tower.id] = @ + upgradeCost]
                   /\ canAfford' = ButtonStates(towers, panelTower, gold', canAfford)
                   /\ towers' = [towers EXCEPT ![i] = TowerUpgrade(tower)]
  /\ UNCHANGED << towerIdCounter, panelTower, kills >>

\* TowerActionPanel.onSell -> 'requestTowerSell' -> sellTower, panel hidden
OnSell ==
  /\ panelTower # 0
  /\ ~isProcessingAction
  /\ LET i == TowerIndex(towers, panelTower)
     IN  /\ gold' = gold + getSellPrice(towers[i])
         /\ towers' = SubSeq(towers, 1, i - 1) \o SubSeq(towers, i + 1, Len(towers))
  /\ isProcessingAction' = TRUE
  /\ panelTower' = 0
  /\ UNCHANGED << towerIdCounter, canAfford, panelCalls, upgradePaid, kills >>

\* 'enemyKilled' -> addGold(reward)
EnemyKilledGold(reward) ==
  /\ kills < MaxKills
  /\ kills' = kills + 1
  /\ gold' = gold + reward
  /\ canAfford' = ButtonStates(towers, panelTower, gold', canAfford)
  /\ UNCHANGED << towers, towerIdCounter, panelTower, isProcessingAction,
                  panelCalls, upgradePaid >>

\* the next wave is played to its end: 'waveStarted', then 'waveComplete' ->
\* addGold(bonusGold), scheduleNextWave
WaveCompleteGold(wave) ==
  /\ wave = currentWave + 1
  /\ currentWave' = wave
  /\ gold' = gold + WaveBonusGold[wave]
  /\ canAfford' = ButtonStates(towers, panelTower, gold', canAfford)
  /\ waveDelayTimer' = ScheduledWaveDelay(sceneGameSpeed)
  /\ waveDelayElapsed' = 0
  /\ UNCHANGED << towers, towerIdCounter, panelTower, isProcessingAction,
                  panelCalls, upgradePaid, kills >>

\* the delayed calls of the panel after a frame of the given length
StepCalls(calls, delta) ==
  { [ c EXCEPT !.remaining = @ - delta ] : c \in { d \in calls : d.remaining > delta } }

\* a frame: the clock runs the panel's delayed calls that are due (unlock,
\* updateContent) and the towers' cooldowns run on
PanelFrame(delta) ==
  /\ panelCalls # {} \/ \E i \in 1..Len(towers) : towers[i].sinceUpgrade < UPGRADE_COOLDOWN
  /\ panelCalls' = StepCalls(panelCalls, delta)
  /\ towers' = [ i \in 1..Len(towers) |->
                   [towers[i] EXCEPT !.sinceUpgrade = Min2(UPGRADE_COOLDOWN, @ + delta)] ]
  /\ isProcessingAction' =
       IF \E c \in panelCalls : c.kind = "unlock" /\ c.remaining <= delta
         THEN FALSE ELSE isProcessingAction
  /\ canAfford' =
       IF \E c \in panelCalls : c.kind = "updateContent" /\ c.remaining <= delta
         THEN ButtonStates(towers, panelTower, gold, canAfford) ELSE canAfford
  /\ UNCHANGED << gold, towerIdCounter, panelTower, upgradePaid, kills >>

NextEconomy ==
  \/ (\E towerId \in DOMAIN TOWER_CONFIGS : PlaceTower(towerId))
        /\ UNCHANGED << rtVars, dmgVars, compVars, speedVars, baseVars >>
  \/ (\E i \in 1..Len(towers) : SelectTower(i))
        /\ UNCHANGED << rtVars, dmgVars, compVars, speedVars, baseVars >>
  \/ DeselectTower /\ UNCHANGED << rtVars, dmgVars, compVars, speedVars, baseVars >>
  \/ OnUpgrade /\ UNCHANGED << rtVars, dmgVars, compVars, speedVars, baseVars >>
  \/ OnSell /\ UNCHANGED << rtVars, dmgVars, compVars, speedVars, baseVars >>
  \/ (\E reward \in KillRewards : EnemyKilledGold(reward))
        /\ UNCHANGED << rtVars, dmgVars, compVars, speedVars, baseVars >>
  \/ (\E wave \in 1..MaxWave : WaveCompleteGold(wave))
        /\ UNCHANGED << isSpawning, waveInProgress, spawnTimers, enemiesSpawnedThisWave,
                        enemies, enemyCountMultiplier, timers, isPaused, lastStartResult,
                        waveStartedCount, waveCompleteLog, plan, spawnedLog, clearMark,
                        pauseMark >>
        /\ UNCHANGED << dmgVars, compVars, sceneGameSpeed, gameTime, gameOver,
                        hasGameStarted, waveStartGameTime, fireLog, speedChanges,
                        baseVars >>
  \/ (\E delta \in PanelFrameDeltas : PanelFrame(delta))
        /\ UNCHANGED << rtVars, dmgVars, compVars, speedVars, baseVars >>

SpecEconomy == Init /\ [][NextEconomy]_vars

(***************************************************************************)
(* BattleScene, WaveSystemV2, EnemyUnit and Projectile: units, lives, defeat *)
(***************************************************************************)
\* number of units spawned in one game while towers defend, and without a
\* tower; number of projectiles in flight
MaxUnits == 3
MaxInvaders == 5
MaxProjectiles == 1

\* ENEMY_CONFIGS: health, damage to the base and reward of two archetypes, at
\* health and reward multiplier 1; stride is the number of path steps one
\* update() moves the unit (speed 58 against speed 22)
ENEMY_STATS ==
  [ rogue     |-> [ health |-> 45,  damage |-> 2, reward |-> 15,  stride |-> 2 ],
    dark_lord |-> [ health |-> 600, damage |-> 8, reward |-> 100, stride |-> 1 ] ]

\* number of path steps to the end of the path
PathSteps == 2 * PathLength + 1

\* effective damage of a projectile: a weak hit and one that kills any unit
ProjectileDamages == {50, 600}

\* spawnEnemy: the EnemyUnit created for an archetype
NewUnit(enemyType) ==
  [ enemyType |-> enemyType, health |-> ENEMY_STATS[enemyType].health,
    damage |-> ENEMY_STATS[enemyType].damage, reward |-> ENEMY_STATS[enemyType].reward,
    stride |-> ENEMY_STATS[enemyType].stride, progress |-> 0,
    isDead |-> FALSE, active |-> TRUE ]

NewUnitLog == [ reachedBase |-> 0, killed |-> 0, removed |-> 0, updatedAfterRemoval |-> 0 ]

\* array.splice(i, 1)
RemoveAt(seq, i) == SubSeq(seq, 1, i - 1) \o SubSeq(seq, i + 1, Len(seq))

\* the scene and wave system fields the handlers below change
SceneState ==
  [ enemies |-> enemies, objs |-> unitObjs, log |-> unitLog, lives |-> lives,
    gameOver |-> gameOver, defeats |-> defeatCount, late |-> lateLifeLoss,
    gold |-> gold, projectiles |-> projectiles ]

\* BattleScene.defeat
Defeat(st) == [st EXCEPT !.gameOver = TRUE, !.defeats = @ + 1]

\* BattleScene.loseLife
LoseLife(st, amount) ==
  LET after == [st EXCEPT !.lives = @ - amount,
                          !.late = IF st.gameOver THEN @ + 1 ELSE @]
  IN  IF after.lives <= 0 THEN Defeat(after) ELSE after

\* EnemyUnit.takeDamage -> die -> 'enemyKilled' -> addGold(reward)
TakeDamage(st, id, amount) ==
  LET enemy == st.objs[id]
      health == enemy.health - amount
  IN  IF enemy.isDead THEN st
      ELSE IF health <= 0
        THEN [st EXCEPT !.objs[id].health = health, !.objs[id].isDead = TRUE,
                        !.log[id].killed = @ + 1, !.gold = @ + enemy.reward]
        ELSE [st EXCEPT !.objs[id].health = health]

\* the enemy loop of WaveSystemV2.update, from the last index down: a dead or
\* inactive unit is taken out; the others are updated, and one that has
\* reached the end is reported ('enemyReachedBase' -> loseLife), destroyed and
\* taken out
RECURSIVE WaveLoop(_, _)
WaveLoop(st, i) ==
  IF i = 0 THEN st
  ELSE LET id == st.enemies[i]
           enemy == st.objs[id]
       IN  IF enemy.isDead \/ ~enemy.active
             THEN WaveLoop([st EXCEPT !.enemies = RemoveAt(@, i),
                                      !.log[id].removed = @ + 1], i - 1)
             ELSE LET progress == Min2(PathSteps, enemy.progress + enemy.stride)
                      updated == [st EXCEPT !.objs[id].progress = progress,
                                    !.log[id].updatedAfterRemoval =
                                       IF st.log[id].removed > 0 THEN @ + 1 ELSE @]
                  IN  IF progress >= PathSteps
                        THEN WaveLoop([LoseLife(updated, enemy.damage) EXCEPT
                                         !.log[id].reachedBase = @ + 1,
                                         !.objs[id].active = FALSE,
                                         !.enemies = RemoveAt(@, i),
                                         !.log[id].removed = @ + 1], i - 1)
                        ELSE WaveLoop(updated, i - 1)

\* variant: the projectile does not look at its target's active flag
TargetActiveUnchecked(target) == TRUE

\* Projectile.update: if (!this.target?.active) the projectile destroys itself
TargetActive(target) == target.active

\* BattleScene.updateProjectiles, from the last index down: a projectile whose
\* target is not active is destroyed, one that is close enough hits
\* (takeDamage) and is destroyed, the others fly on
RECURSIVE ProjectileLoop(_, _, _)
ProjectileLoop(st, i, landing) ==
  IF i = 0 THEN st
  ELSE LET projectile == st.projectiles[i]
       IN  IF ~TargetActive(st.objs[projectile.target])
             THEN ProjectileLoop([st EXCEPT !.projectiles = RemoveAt(@, i)], i - 1, landing)
           ELSE IF i \in landing
             THEN ProjectileLoop(
                    [TakeDamage(st, projectile.target, projectile.damage) EXCEPT
                       !.projectiles = RemoveAt(@, i)], i - 1, landing)
           ELSE ProjectileLoop(st, i - 1, landing)

\* a spawn timer's callback: spawnEnemy(type)
SpawnUnit(enemyType) ==
  /\ waveInProgress /\ isSpawning
  /\ unitObjs' = Append(unitObjs, NewUnit(enemyType))
  /\ unitLog' = Append(unitLog, NewUnitLog)
  /\ enemies' = Append(enemies, Len(unitObjs) + 1)
  /\ enemiesSpawnedThisWave' = enemiesSpawnedThisWave + 1
  /\ UNCHANGED << currentWave, isSpawning, waveInProgress, spawnTimers,
                  enemyCountMultiplier, timers, isPaused, lastStartResult,
                  waveStartedCount, waveCompleteLog, plan, spawnedLog, clearMark,
                  pauseMark >>
  /\ UNCHANGED << speedVars, econVars, lives, projectiles, defeatCount, lateLifeLoss >>

\* the callback of the timer startNextWave creates after the last spawn
SpawningFinished ==
  /\ waveInProgress /\ isSpawning
  /\ enemiesSpawnedThisWave > 0
  /\ isSpawning' = FALSE
  /\ UNCHANGED << currentWave, waveInProgress, spawnTimers, enemiesSpawnedThisWave,
                  enemies, enemyCountMultiplier, timers, isPaused, lastStartResult,
                  waveStartedCount, waveCompleteLog, plan, spawnedLog, clearMark,
                  pauseMark >>
  /\ UNCHANGED << sceneVars >>

\* the onComplete of the tween die() starts: this.destroy()
DeathTweenComplete(id) ==
  /\ unitObjs[id].isDead /\ unitObjs[id].active
  /\ unitObjs' = [unitObjs EXCEPT ![id].active = FALSE]
  /\ UNCHANGED << rtVars, speedVars, econVars, lives, projectiles, unitLog,
                  defeatCount, lateLifeLoss >>

\* the callback scheduleNextWave hands to delayedCall:
\* if (!this.gameOver) this.startNextWave(), which starts the next wave unless
\* one is in progress
WaveDelayCallback ==
  /\ waveDelayTimer.state = "pending"
  /\ currentWave < MaxWave
  /\ waveDelayTimer' = [waveDelayTimer EXCEPT !.state = "dispatched"]
  /\ IF ~gameOver /\ ~waveInProgress
       THEN /\ currentWave' = currentWave + 1
            /\ waveInProgress' = TRUE
            /\ isSpawning' = TRUE
            /\ enemiesSpawnedThisWave' = 0
            /\ waveStartedCount' = waveStartedCount + 1
       ELSE UNCHANGED << currentWave, waveInProgress, isSpawning,
                         enemiesSpawnedThisWave, waveStartedCount >>
  /\ UNCHANGED << spawnTimers, enemies, enemyCountMultiplier, timers, isPaused,
                  lastStartResult, waveCompleteLog, plan, spawnedLog, clearMark,
                  pauseMark >>
  /\ UNCHANGED << sceneGameSpeed, gameTime, gameOver, hasGameStarted, waveDelayElapsed,
                  waveStartGameTime, fireLog, speedChanges >>
  /\ UNCHANGED << econVars, baseVars >>

\* BattleScene.update: the wave system's update (with waveComplete ->
\* addGold, scheduleNextWave), updateTowers (a tower fires at a living unit of
\* the collection, or no tower fires) and updateProjectiles (the projectiles
\* of `landing` are close enough to hit)
BattleUpdate(fireAt, damage, landing) ==
  /\ hasGameStarted
  /\ ~(gameOver \/ isPaused)
  /\ enemies # << >> \/ projectiles # << >>
  /\ LET moved == WaveLoop(SceneState, Len(enemies))
         complete == waveInProgress /\ ~isSpawning /\ Len(moved.enemies) = 0
         paid == IF complete
                   THEN [moved EXCEPT !.gold = @ + WaveBonusGold[currentWave]]
                   ELSE moved
         fired == IF fireAt = 0 THEN paid
                  ELSE [paid EXCEPT !.projectiles =
                          Append(@, [ target |-> fireAt, damage |-> damage ])]
         after == ProjectileLoop(fired, Len(fired.projectiles), landing)
     IN  /\ fireAt # 0 =>
               /\ Len(towers) > 0
               /\ Len(projectiles) < MaxProjectiles
               /\ \E k \in 1..Len(moved.enemies) : moved.enemies[k] = fireAt
               /\ ~moved.objs[fireAt].isDead
         /\ landing \subseteq 1..Len(fired.projectiles)
         /\ enemies' = after.enemies
         /\ unitObjs' = after.objs
         /\ unitLog' = after.log
         /\ lives' = after.lives
         /\ gameOver' = after.gameOver
         /\ defeatCount' = after.defeats
         /\ lateLifeLoss' = after.late
         /\ gold' = after.gold
         /\ projectiles' = after.projectiles
         /\ canAfford' = ButtonStates(towers, panelTower, after.gold, canAfford)
         /\ IF complete
              THEN /\ waveInProgress' = FALSE
                   /\ waveDelayTimer' = ScheduledWaveDelay(sceneGameSpeed)
                   /\ waveDelayElapsed' = 0
              ELSE UNCHANGED << waveInProgress, waveDelayTimer, waveDelayElapsed >>
  /\ UNCHANGED << currentWave, isSpawning, spawnTimers, enemiesSpawnedThisWave,
                  enemyCountMultiplier, timers, isPaused, lastStartResult,
                  waveStartedCount, waveCompleteLog, plan, spawnedLog, clearMark,
                  pauseMark >>
  /\ UNCHANGED << sceneGameSpeed, gameTime, hasGameStarted, waveStartGameTime,
                  fireLog, speedChanges >>
  /\ UNCHANGED << towers, towerIdCounter, panelTower, isProcessingAction,
                  panelCalls, upgradePaid, kills >>

NextBase ==
  \/ StartGame /\ UNCHANGED << dmgVars, compVars, econVars, baseVars >>
  \/ (\E towerId \in DOMAIN TOWER_CONFIGS : PlaceTower(towerId))
        /\ UNCHANGED << rtVars, dmgVars, compVars, speedVars, baseVars >>
  \/ WaveDelayCallback /\ UNCHANGED << dmgVars, compVars >>
  \/ (\E enemyType \in DOMAIN ENEMY_STATS :
          Len(unitObjs) < MaxUnits /\ SpawnUnit(enemyType))
        /\ UNCHANGED << dmgVars, compVars >>
  \/ SpawningFinished /\ UNCHANGED << dmgVars, compVars >>
  \/ (\E id \in 1..Len(unitObjs) : DeathTweenComplete(id))
        /\ UNCHANGED << dmgVars, compVars >>
  \/ (\E fireAt \in 0..MaxUnits, damage \in ProjectileDamages,
         landing \in SUBSET (1..MaxProjectiles) :
           BattleUpdate(fireAt, damage, landing))
        /\ UNCHANGED << dmgVars, compVars >>

SpecBase == Init /\ [][NextBase]_vars

\* a game in which no tower is placed
NextDefeat ==
  \/ StartGame /\ UNCHANGED << dmgVars, compVars, econVars, baseVars >>
  \/ WaveDelayCallback /\ UNCHANGED << dmgVars, compVars >>
  \/ (\E enemyType \in DOMAIN ENEMY_STATS :
          Len(unitObjs) < MaxInvaders /\ SpawnUnit(enemyType))
        /\ UNCHANGED << dmgVars, compVars >>
  \/ SpawningFinished /\ UNCHANGED << dmgVars, compVars >>
  \/ (\E damage \in ProjectileDamages : BattleUpdate(0, damage, {}))
        /\ UNCHANGED << dmgVars, compVars >>

SpecDefeat == Init /\ [][NextDefeat]_vars

Next ==
  \/ (\E gameSpeed \in GameSpeeds : StartNextWave(gameSpeed)) /\ UNCHANGED << dmgVars, compVars, sceneVars >>
  \/ (\E delta \in FrameDeltas : ClockTick(delta)) /\ UNCHANGED << dmgVars, compVars, sceneVars >>
  \/ Update /\ UNCHANGED << dmgVars, compVars, sceneVars >>
  \/ PauseSpawning /\ UNCHANGED << dmgVars, compVars, sceneVars >>
  \/ ResumeSpawning /\ UNCHANGED << dmgVars, compVars, sceneVars >>
  \/ Clear /\ UNCHANGED << dmgVars, compVars, sceneVars >>
  \/ (\E i \in 1..Len(enemies) : KillEnemy(i)) /\ UNCHANGED << dmgVars, compVars, sceneVars >>

Spec == Init /\ [][Next]_vars

\* one frame of the Phaser clock and one frame of BattleScene.update
TickStep == (\E delta \in FrameDeltas : ClockTick(delta)) /\ UNCHANGED << dmgVars, compVars, sceneVars >>
UpdateStep == Update /\ UNCHANGED << dmgVars, compVars, sceneVars >>
ResumeStep == ResumeSpawning /\ UNCHANGED << dmgVars, compVars, sceneVars >>

\* the runtime without clear(), at game speed 1
NextLive ==
  \/ StartNextWave(1) /\ UNCHANGED << dmgVars, compVars, sceneVars >>
  \/ TickStep
  \/ UpdateStep
  \/ PauseSpawning /\ UNCHANGED << dmgVars, compVars, sceneVars >>
  \/ ResumeStep
  \/ (\E i \in 1..Len(enemies) : KillEnemy(i)) /\ UNCHANGED << dmgVars, compVars, sceneVars >>

\* ENABLED <<TickStep>>_vars: a frame of the clock changes the state exactly
\* when some event is neither dispatched, destroyed nor paused
TickEnabled ==
  \E i \in 1..Len(timers) : Pending(timers[i]) /\ ~timers[i].paused

\* the frame loop keeps running the clock and, whenever the game is not
\* paused, update(); every pause is eventually resumed.  The first conjunct
\* of the fairness is SF_vars(TickStep) with its enabling condition written
\* out.
SpecLive ==
  /\ Init /\ [][NextLive]_vars
  /\ (<>[](~TickEnabled) \/ []<><<TickStep>>_vars)
  /\ SF_vars(UpdateStep) /\ WF_vars(ResumeStep)


(***************************************************************************)
(* Properties                                                              *)
(***************************************************************************)
IsPrefix(a, b) == Len(a) <= Len(b) /\ SubSeq(b, 1, Len(a)) = a

SpawnTimersOf(wave) ==
  { i \in 1..Len(timers) : timers[i].kind = "spawn" /\ timers[i].wave = wave }

AllSpawned(wave) == \A i \in SpawnTimersOf(wave) : timers[i].hasDispatched

\* C1: startNextWave called while a wave is in progress returns false and
\* leaves the wave counter, both flags, the tracked and scheduled timers and
\* the active units unchanged, and emits no waveStarted.
C1_RejectedStartChangesNothing ==
  [][ \A gameSpeed \in GameSpeeds :
        (waveInProgress /\ StartNextWave(gameSpeed)) =>
           /\ lastStartResult' = FALSE
           /\ UNCHANGED << currentWave, waveInProgress, isSpawning, spawnTimers,
                           timers, enemies, enemiesSpawnedThisWave, waveStartedCount >> ]_vars

\* a call was rejected during a wave whose spawn events are partly pending
C1_Witness ==
  /\ waveInProgress
  /\ lastStartResult = FALSE
  /\ \E i \in SpawnTimersOf(currentWave) : Pending(timers[i])
  /\ Len(enemies) > 0

\* C2: with no clear(), every waveComplete was emitted with spawning
\* finished, no active unit and no spawn event of its wave still unfired,
\* carries the wave number plus one, and is the only one for its wave.
C2_CompleteOnlyWhenAllSpawnedAndGone ==
  clearMark = 0 =>
    \A k \in 1..Len(waveCompleteLog) :
       /\ ~waveCompleteLog[k].isSpawning
       /\ waveCompleteLog[k].active = 0
       /\ waveCompleteLog[k].unspawned = 0
       /\ waveCompleteLog[k].nextWave = waveCompleteLog[k].wave + 1
       /\ \A j \in 1..Len(waveCompleteLog) :
            j # k => waveCompleteLog[j].wave # waveCompleteLog[k].wave

C4_PausedTimersKeepRemainingDelay ==
  [][ (isPaused /\ isPaused') =>
        \A i \in 1..pauseMark :
           (Pending(timers[i]) /\ timers[i].wave = currentWave /\ ~timers'[i].destroyed) =>
              /\ timers'[i].elapsed = timers[i].elapsed
              /\ timers'[i].hasDispatched = timers[i].hasDispatched ]_vars

\* C5: the spawning-finished marker of a wave has fired only if every spawn
\* event of that wave (that clear() did not cancel) has fired.
C5_MarkerAfterLastSpawn ==
  \A m \in 1..Len(timers) :
     (timers[m].kind = "marker" /\ timers[m].hasDispatched) =>
        \A i \in SpawnTimersOf(timers[m].wave) :
           ~timers[i].destroyed => timers[i].hasDispatched

\* C6: every pending spawn event and every pending spawning-finished marker
\* belongs to the current wave.
C6_PendingEventsOfCurrentWave ==
  \A i \in 1..Len(timers) : Pending(timers[i]) => timers[i].wave = currentWave

\* C7: clear() leaves the runtime idle with no active unit, and no timer
\* scheduled before the last clear() fires afterwards.
C7_NothingFiresAfterClear ==
  [][ /\ Clear => (~waveInProgress' /\ ~isSpawning' /\ enemies' = << >>)
      /\ \A i \in 1..clearMark :
           timers'[i].hasDispatched = timers[i].hasDispatched ]_vars

\* C8: the composed sequence has exactly enemyCount entries and exactly
\* enemyCount spawn events are scheduled for it.
C8_CompositionHasEnemyCount ==
  composed # NoCall =>
    /\ Len(composed.waveComposition) = composed.enemyCount
    /\ Len(composed.scheduled) = composed.enemyCount
    /\ \A i \in 1..Len(composed.scheduled) :
         composed.scheduled[i].enemyType = composed.waveComposition[i]

\* a boss wave with two bosses spliced into a support composition
C8_Witness ==
  /\ composed # NoCall
  /\ composed.wave = 50
  /\ composed.enemyCount > 2
  /\ Cardinality({ i \in 1..Len(composed.waveComposition) :
                     IsBoss(composed.waveComposition[i]) }) = 2

\* per-tag blended multipliers of a call, in thousandths
Blended(call) ==
  { TypeMultiplier(TOWER_DAMAGE_PROFILES[call.towerId], call.enemyTypes[i]) :
      i \in 1..Len(call.enemyTypes) }

SetMax(S) == CHOOSE x \in S : \A y \in S : y <= x
SetMin(S) == CHOOSE x \in S : \A y \in S : x <= y

\* C9: for a profiled tower and an enemy with exactly one tag the result is
\* floor(base * blended), for blended multipliers below 1 as well as above.
C9_SingleTagUsesBlended ==
  (/\ dmgCall # NoCall
   /\ dmgCall.towerId \in DOMAIN TOWER_DAMAGE_PROFILES
   /\ Len(dmgCall.enemyTypes) = 1) =>
     dmgResult = (dmgCall.baseDamage * SetMax(Blended(dmgCall))) \div 1000

\* C10: for an enemy with two or more tags the multiplier applied is the
\* mean of the largest and the smallest per-tag blended multiplier.
C10_MultiTagMeanOfBestAndWorst ==
  (/\ dmgCall # NoCall
   /\ dmgCall.towerId \in DOMAIN TOWER_DAMAGE_PROFILES
   /\ Len(dmgCall.enemyTypes) >= 2) =>
     dmgResult = (dmgCall.baseDamage
                    * (SetMax(Blended(dmgCall)) + SetMin(Blended(dmgCall)))) \div 2000

\* the final multiplier of a call as the damage rules define it, in
\* two-thousandths: neutral for no tag, the blended multiplier for one tag,
\* the mean of the largest and smallest blended multiplier for several
RuleFinalMultiplier2000(call) ==
  IF Len(call.enemyTypes) = 0 THEN 2000
  ELSE IF Len(call.enemyTypes) = 1 THEN 2 * SetMax(Blended(call))
  ELSE SetMax(Blended(call)) + SetMin(Blended(call))

\* C11: for every tag list the result of a profiled call is the floor of
\* base times the final multiplier, never more, and it is exactly 0 when that
\* multiplier is 0.
C11_FloorOfFinalMultiplier ==
  (/\ dmgCall # NoCall
   /\ dmgCall.towerId \in DOMAIN TOWER_DAMAGE_PROFILES) =>
     /\ dmgResult * 2000 <= dmgCall.baseDamage * RuleFinalMultiplier2000(dmgCall)
     /\ dmgCall.baseDamage * RuleFinalMultiplier2000(dmgCall) < (dmgResult + 1) * 2000
     /\ RuleFinalMultiplier2000(dmgCall) = 0 => dmgResult = 0

\* C12: a tower id without a damage profile gets the base damage back
\* whatever the tags are, an empty tag list gets the neutral multiplier, and
\* the call leaves the wave runtime as it was.
C12_ConfigurationGapsPassThrough ==
  (/\ dmgCall # NoCall
   /\ \/ dmgCall.towerId \notin DOMAIN TOWER_DAMAGE_PROFILES
      \/ dmgCall.enemyTypes = << >>) =>
     /\ dmgResult = dmgCall.baseDamage
     /\ RtInit

\* an unprofiled tower hitting a tagged enemy with a positive base damage
C12_Witness ==
  /\ dmgCall # NoCall
  /\ dmgCall.towerId \notin DOMAIN TOWER_DAMAGE_PROFILES
  /\ Len(dmgCall.enemyTypes) = 3
  /\ dmgCall.baseDamage = 13
  /\ dmgResult = 13

\* number of boss-tagged entries of a sequence
BossEntries(sequence) ==
  Cardinality({ i \in 1..Len(sequence) : IsBoss(sequence[i]) })

\* whether the composed wave is a boss wave with a boss archetype unlocked
BossUnlockedOnBossWave ==
  /\ composed.wave % 10 = 0
  /\ Len(getAvailableBossTypes(composed.roster, composed.wave)) > 0

Members(pool) == { pool[i] : i \in 1..Len(pool) }

\* C14: the regular pool, every sub-pool, every segment pool and the themed
\* part of the sequence hold no boss-tagged archetype; a sequence holds a
\* boss only on a boss wave with a boss archetype unlocked.
C14_NoBossInRegularPool ==
  composed # NoCall =>
    /\ \A id \in Members(composed.availableTypes) : ~IsBoss(id)
    /\ \A id \in Members(composed.pools.basePool)
                  \cup Members(composed.pools.resolvedFocusPool)
                  \cup Members(composed.pools.resolvedSupportPool)
                  \cup Members(composed.pools.resolvedWildcardPool) : ~IsBoss(id)
    /\ \A k \in 1..Len(composed.segments) :
          \A id \in Members(composed.segments[k].pool) : ~IsBoss(id)
    /\ BossEntries(composed.waveComposition) > 0 => BossUnlockedOnBossWave
    /\ Len(composed.waveComposition) - BossEntries(composed.waveComposition)
          = composed.themedCount

\* wave 15 with the shipped catalogue: both bosses are unlocked, the wave is
\* not a boss wave and none of its entries is a boss
C14_Witness ==
  /\ composed # NoCall
  /\ composed.wave = 15
  /\ composed.roster = EnemyKeys
  /\ Len(getAvailableBossTypes(composed.roster, composed.wave)) = 2
  /\ composed.enemyCount > 0
  /\ BossEntries(composed.waveComposition) = 0

\* the themed part of the composed sequence: the sequence without the
\* bosses spliced into it
ThemedSequence == SelectSeq(composed.waveComposition, LAMBDA id : ~IsBoss(id))

\* C15: when the resolved segment count is 3, the first and the last
\* segment are laid out on the resolved focus pool, and the entries of the
\* themed sequence they cover are all archetypes of that pool.
C15_FocusOpensAndCloses ==
  (composed # NoCall /\ composed.segmentCount = 3) =>
    LET segments == composed.segments
        first == segments[1]
        last  == segments[Len(segments)]
        focus == Members(composed.pools.resolvedFocusPool)
        n     == Len(ThemedSequence)
    IN  /\ Len(segments) >= 2
        /\ first.pool = composed.pools.resolvedFocusPool
        /\ last.pool = composed.pools.resolvedFocusPool
        /\ first.size > 0 /\ last.size > 0
        /\ \A i \in 1..first.size : ThemedSequence[i] \in focus
        /\ \A i \in (n - last.size + 1)..n : ThemedSequence[i] \in focus

\* wave 9 with the shipped catalogue and count multiplier 1: 25 units in
\* three segments, the middle one drawn from a support pool that shares no
\* archetype with the focus pool
C15_Witness ==
  /\ composed # NoCall
  /\ composed.wave = 9
  /\ composed.enemyCount = 25
  /\ composed.segmentCount = 3
  /\ Len(composed.segments) = 3
  /\ \E i \in 1..Len(composed.waveComposition) :
        composed.waveComposition[i] \notin Members(composed.pools.resolvedFocusPool)

\* the strategic tags carried by the archetypes whose unlock wave is w
NewStrategicTags(w) ==
  { t \in StrategicTypes :
      \E id \in DOMAIN ENEMY_CONFIGS :
         /\ ENEMY_CONFIGS[id].unlockWave = w
         /\ t \in Members(ENEMY_CONFIGS[id].enemyTypes) }

\* whether the regular pool holds an archetype carrying one of the tags
PoolCarries(pool, tags) ==
  \E id \in Members(pool) : Members(ENEMY_CONFIGS[id].enemyTypes) \cap tags # {}

\* C16: the theme of a wave is the boss-support theme on a boss wave, else
\* the early theme registered for the wave, else the new-threat theme on
\* the strategic tags unlocking on the wave when the regular pool carries
\* one, else the cycle entry at index max(0, wave - 5) mod the cycle length.
C16_ThemeResolutionOrder ==
  composed # NoCall =>
    LET w == composed.wave
        theme == composed.waveTheme
        tags == NewStrategicTags(w)
    IN  IF w % 10 = 0 THEN theme.id = "boss_support"
        ELSE IF w \in 1..4
          THEN theme.id = << "intro_swarm", "swarm_mix", "armored_check", "flying_intro" >>[w]
        ELSE IF tags # {} /\ PoolCarries(composed.availableTypes, tags)
          THEN /\ theme.id = "new_threat"
               /\ theme.focusTypes = tags
               /\ theme.focusRatio = 65 /\ theme.supportRatio = 25
               /\ theme.wildcardRatio = 10 /\ theme.segmentCount = 3
        ELSE theme = WAVE_THEME_CYCLE[(Max2(0, w - 5) % 8) + 1]

\* wave 15: the only unlock is a boss, and its undead tag makes the wave a
\* new-threat wave
C16_Witness ==
  /\ composed # NoCall
  /\ composed.wave = 15
  /\ composed.roster = EnemyKeys
  /\ composed.waveTheme.id = "new_threat"
  /\ composed.waveTheme.focusTypes = {"undead"}

WithoutBosses(sequence) == SelectSeq(sequence, LAMBDA id : ~IsBoss(id))

\* the archetypes the segment layout allows at position j of a themed
\* sequence; past the last segment the sequence is padded from the focus pool
RECURSIVE SegmentPoolAt(_, _, _)
SegmentPoolAt(segments, j, padPool) ==
  IF segments = << >> THEN Members(padPool)
  ELSE IF j <= Head(segments).size THEN Members(Head(segments).pool)
  ELSE SegmentPoolAt(Tail(segments), j - Head(segments).size, padPool)

\* C18: two compositions of the same wave under the same multipliers and
\* catalogue have the same scaling parameters and the same ordered sequence.
C18_ReplayGivesSameSequence ==
  (composed # NoCall /\ composed.op = "replay") =>
    /\ composed.first.scaling = composed.second.scaling
    /\ composed.first.waveComposition = composed.second.waveComposition

\* C18 as amended: two compositions agree on the scaling parameters, the
\* theme, the length, the positions of the bosses and, position by position,
\* the segment pool each archetype is drawn from.
C18_ReplayGivesSameLayout ==
  (composed # NoCall /\ composed.op = "replay") =>
    LET a == composed.first.waveComposition
        b == composed.second.waveComposition
    IN  /\ composed.first.scaling = composed.second.scaling
        /\ composed.first.theme = composed.second.theme
        /\ Len(a) = Len(b)
        /\ \A i \in 1..Len(a) : IsBoss(a[i]) <=> IsBoss(b[i])
        /\ \A j \in 1..Len(WithoutBosses(a)) :
             /\ WithoutBosses(a)[j]
                  \in SegmentPoolAt(composed.segments, j, composed.pools.resolvedFocusPool)
             /\ WithoutBosses(b)[j]
                  \in SegmentPoolAt(composed.segments, j, composed.pools.resolvedFocusPool)

\* wave 50 composed twice with different boss archetypes and a different
\* order of the support units
C18_Witness ==
  /\ composed # NoCall /\ composed.op = "replay"
  /\ composed.wave = 50
  /\ "warlord" \in Members(composed.first.waveComposition)
  /\ "dark_lord" \in Members(composed.second.waveComposition)
  /\ WithoutBosses(composed.first.waveComposition)
       # WithoutBosses(composed.second.waveComposition)

\* the archetypes of a pool that carry one of the tags, in pool order
Carrying(pool, tags) ==
  SelectSeq(pool, LAMBDA id : Members(ENEMY_CONFIGS[id].enemyTypes) \cap tags # {})

\* C19: every pool the composer draws from is non-empty; a catalogue with no
\* unlocked regular archetype gives the default archetype, an empty focus
\* pool resolves to the full pool, an empty support pool to the resolved
\* focus pool and an empty wildcard pool to the resolved support pool.
C19_PoolsNeverEmpty ==
  composed # NoCall =>
    LET pools == composed.pools
        theme == composed.themedTheme
        focus == Carrying(pools.basePool, theme.focusTypes)
        support == Carrying(pools.basePool, theme.supportTypes)
        wildcard == Carrying(pools.basePool, theme.wildcardTypes)
    IN  /\ FilterRoster(composed.roster, composed.wave, FALSE) = << >>
             => composed.availableTypes = << "goblin" >>
        /\ pools.basePool = composed.availableTypes
        /\ pools.basePool # << >>
        /\ pools.resolvedFocusPool = IF focus = << >> THEN pools.basePool ELSE focus
        /\ pools.resolvedSupportPool =
             IF support = << >> THEN pools.resolvedFocusPool ELSE support
        /\ pools.resolvedWildcardPool =
             IF wildcard = << >> THEN pools.resolvedSupportPool ELSE wildcard
        /\ pools.resolvedFocusPool # << >>
        /\ pools.resolvedSupportPool # << >>
        /\ pools.resolvedWildcardPool # << >>
        /\ \A k \in 1..Len(composed.segments) : composed.segments[k].pool # << >>
        /\ Len(composed.waveComposition) = composed.enemyCount

\* a catalogue of two swarm archetypes under a theme none of whose tags it
\* carries: all three sub-pools are empty and resolve to the full pool
C19_Witness ==
  /\ composed # NoCall
  /\ composed.roster = << "goblin", "tnt_runner" >>
  /\ composed.enemyCount > 0
  /\ composed.pools.focusPool = << >>
  /\ composed.pools.supportPool = << >>
  /\ composed.pools.wildcardPool = << >>
  /\ composed.pools.resolvedWildcardPool = << "goblin", "tnt_runner" >>
  /\ Members(composed.waveComposition) \subseteq {"goblin", "tnt_runner"}

\* C20: the focus, support and wildcard counts are never negative, add up
\* to the total, and the focus count is at least 1 for a positive total.
C20_CountsPartitionTotal ==
  (composed # NoCall /\ composed.op = "allocateThemeCounts") =>
    /\ composed.counts.focusCount >= 0
    /\ composed.counts.supportCount >= 0
    /\ composed.counts.wildcardCount >= 0
    /\ composed.counts.focusCount + composed.counts.supportCount
         + composed.counts.wildcardCount = composed.total
    /\ composed.total > 0 => composed.counts.focusCount >= 1

\* a theme with focus ratio 0 and no wildcard: the focus count is raised to
\* 1 and the support count gives up one unit
C20_Witness ==
  /\ composed # NoCall /\ composed.op = "allocateThemeCounts"
  /\ composed.total = 5
  /\ composed.focusRatio = 0 /\ composed.supportRatio = 150 /\ composed.wildcardRatio = 0
  /\ composed.counts = [focusCount |-> 1, supportCount |-> 4, wildcardCount |-> 0]

\* C21: the support and wildcard counts are the floors of their shares of
\* the total and the focus count is the total minus those two floors, for
\* every total and every theme of the library.
C21_RemainderGoesToFocus ==
  (composed # NoCall /\ composed.op = "startNextWave") =>
    LET theme == composed.themedTheme
        total == composed.themedCount
        ratioTotal == theme.focusRatio + theme.supportRatio + theme.wildcardRatio
        supportFloor == (total * theme.supportRatio) \div ratioTotal
        wildcardFloor == (total * theme.wildcardRatio) \div ratioTotal
    IN  /\ composed.counts.supportCount = supportFloor
        /\ composed.counts.wildcardCount = wildcardFloor
        /\ composed.counts.focusCount = total - supportFloor - wildcardFloor

\* C22: when the support composition has at least bossCount + 1 entries, boss
\* number i (from 0) sits at index spacing*(i+1)+i with spacing =
\* floor(L/(bossCount+1)): spacing support enemies come before the first boss
\* and between consecutive bosses, no two bosses are adjacent, the wave does
\* not open with a boss, and the support enemies keep their relative order.
C22_BossesEvenlySpaced ==
  (/\ composed # NoCall /\ composed.op = "spliceBosses"
   /\ Len(composed.supportComposition) >= composed.bossCount + 1) =>
    LET support == composed.supportComposition
        spaced == composed.spaced
        bossCount == composed.bossCount
        spacing == Len(support) \div (bossCount + 1)
        bossAt == { k \in 1..Len(spaced) : spaced[k] = composed.bossType }
    IN  /\ Len(spaced) = Len(support) + bossCount
        /\ bossAt = { spacing * (i + 1) + i + 1 : i \in 0..(bossCount - 1) }
        /\ \A k \in bossAt : k + 1 \notin bossAt
        /\ 1 \notin bossAt
        /\ \A k \in 1..Len(support) :
             spaced[k + Min2(bossCount, (k - 1) \div spacing)] = support[k]

C22_Witness ==
  /\ composed # NoCall /\ composed.op = "spliceBosses"
  /\ composed.bossCount = 2
  /\ composed.supportComposition = << "footman", "goblin", "goblin", "footman", "footman" >>
  /\ composed.spaced = << "footman", "warlord", "goblin", "warlord", "goblin",
                          "footman", "footman" >>

\* C23: for a pool of at least two distinct archetypes and any length, the
\* built sequence never has the same archetype at two consecutive positions,
\* inside a pass or across the seam of two passes, and every complete pass
\* over the pool holds each archetype of the pool exactly once.
C23_NoRepeatAndFullPasses ==
  (/\ composed # NoCall /\ composed.op = "buildSequenceFromPool"
   /\ Len(composed.pool) >= 2) =>
    LET sequence == composed.sequence
        pool == composed.pool
        n == Len(pool)
    IN  /\ Len(sequence) = composed.count
        /\ \A k \in 1..(Len(sequence) - 1) : sequence[k] # sequence[k + 1]
        /\ \A pass \in 0..((Len(sequence) \div n) - 1) :
             \A p \in 1..n :
               Cardinality({ k \in 1..n : sequence[pass * n + k] = pool[p] }) = 1

C23_Witness ==
  /\ composed # NoCall /\ composed.op = "buildSequenceFromPool"
  /\ composed.pool = << "goblin", "footman", "archer" >>
  /\ composed.sequence = << "archer", "goblin", "footman", "goblin", "footman", "archer",
                            "footman" >>

\* rounded theme-adjusted interval, before the final floor
ThemedInterval(wave, theme) ==
  (Max2(300, 800 - wave * 30) * theme.spawnIntervalMultiplier + 50) \div 100

C25_AllFourMultipliersApplied ==
  (composed # NoCall /\ composed.op = "selectDifficulty") =>
    LET diffConfig == DIFFICULTY_CONFIG[composed.difficulty]
    IN  /\ composed.waveSystem.rewardMultiplier = diffConfig.rewardMultiplier
        /\ composed.waveSystem.healthMultiplier = diffConfig.healthMultiplier
        /\ composed.waveSystem.enemyCountMultiplier = diffConfig.countMultiplier
        /\ composed.waveSystem.speedMultiplier = diffConfig.speedMultiplier
        /\ composed.enemyCount = ScalingEnemyCount(composed.wave, diffConfig.countMultiplier)
        /\ composed.speedMultiplier =
             ScalingSpeedMultiplier(composed.wave, diffConfig.speedMultiplier)

\* the spawn interval of a wave of the shipped catalogue, in quarter ms
WaveSpawnInterval4(wave) ==
  LET availableTypes == getAvailableEnemyTypes(EnemyKeys, wave)
  IN  4 * ScalingSpawnInterval(wave,
            getWaveTheme(availableTypes, wave % 10 = 0 /\ wave > 0, wave))

\* game time after the wave start at which an event of the wave is due
ScheduledGameTime(e) ==
  IF e.kind = "spawn"
    THEN e.index * WaveSpawnInterval4(e.wave)
    ELSE (Len(plan[e.wave]) - 1) * WaveSpawnInterval4(e.wave) + 2000

\* one frame of game time at the highest game speed
FrameTolerance == 4 * 2000

\* C27: measured in game time (real time multiplied by the game speed in
\* force), the spawn event of index i fires i * spawnInterval after the wave
\* start and the spawning-finished marker (count - 1) * spawnInterval + 500 ms
\* after it, to within one frame, also when the game speed is changed while
\* the wave is spawning.
C27_ScheduleFollowsGameSpeed ==
  \A k \in 1..Len(fireLog) :
    /\ fireLog[k].gameElapsed >= ScheduledGameTime(fireLog[k])
    /\ fireLog[k].gameElapsed - ScheduledGameTime(fireLog[k]) <= FrameTolerance

\* the upgrade costs of the levels a tower has gained
LevelsCost(tower) ==
  IF tower.level = 1 THEN 0
  ELSE IF tower.level = 2 THEN tower.cost * UPGRADE_MULTIPLIER
  ELSE tower.cost * UPGRADE_MULTIPLIER + tower.cost * UPGRADE_MULTIPLIER * UPGRADE_MULTIPLIER

\* C28: gold is deducted for an upgrade request only if the tower's level goes
\* up by one: for every tower, the gold spent on its upgrades is the sum of
\* the upgrade costs of the levels it gained, and totalInvested is the
\* purchase cost plus that sum.
C28_UpgradeGoldBuysLevels ==
  \A i \in 1..Len(towers) :
    /\ upgradePaid[towers[i].id] = LevelsCost(towers[i])
    /\ towers[i].totalInvested = towers[i].cost + upgradePaid[towers[i].id]

\* C29: the player's gold is never negative.
C29_GoldNeverNegative == gold >= 0

\* a tower was bought and upgraded twice, and what is left does not buy the
\* cheapest tower
C29_Witness ==
  /\ Len(towers) = 1
  /\ towers[1].level = 3
  /\ gold < TOWER_CONFIGS.ember_watch.cost

C30_DefeatTakenOnce ==
  /\ defeatCount <= 1
  /\ lateLifeLoss = 0

\* once the game is over no wave is started
NoWaveAfterGameOver == [][gameOver => currentWave' = currentWave]_vars

====
